---- MODULE Spec2Model ----
(***************************************************************************)
(* A model of the plunkit game-server runtime (plunkit_server):            *)
(*   - the wire codec of protocol/types.rs (variable-length integers,      *)
(*     packed positions, packet framing),                                  *)
(*   - the packet decoders of protocol/packets.rs,                         *)
(*   - the connection loop of protocol/connection.rs and server/mod.rs,    *)
(*   - the entity and chunk registry of world/manager.rs.                   *)
(*                                                                         *)
(* 32-bit integers are TLA+ integers in -2^31 .. 2^31-1; their bitwise     *)
(* operations go through the two's-complement bits.  64-bit integers are   *)
(* functions from bit index 0..63 to {0,1}.  Bytes are integers 0..255.    *)
(***************************************************************************)
EXTENDS Integers, Sequences, FiniteSets, TLC

VARIABLES
    debugBuild,   \* TRUE: the build checks arithmetic overflow (debug profile)
    vi,           \* write_varint / read_varint exercise
    vl,           \* write_varlong / read_varlong exercise
    fr,           \* PacketFrame encode / decode exercise
    ps,           \* write_position / read_position exercise
    conn,         \* per connection: MinecraftConnection and its task
    wire,         \* per connection: byte segments sent by the client, not yet read
    sent,         \* per connection: packets written to the stream, in order
    rcv,          \* per connection: packets returned by read_packet, in order
    entities,     \* World::ecs: the spawned entities, in spawn order
    entity_counter, \* World::entity_counter
    chunks,       \* World::chunks: (chunk x, chunk z) -> Chunk
    sessions,     \* MinecraftServer::sessions: uuid -> PlayerSession
    wop,          \* the last call made on the world or on a chunk, and its result
    gen,          \* Chunk::generate_flat on a new chunk, column by column
    spawn,        \* the tasks inside World::spawn_player and the locks they hold
    worlds,       \* WorldManager::worlds: the ids of the registered worlds
    sandboxes,    \* SandboxManager::sandboxes: world id -> WasmRuntime
    wdrv,         \* the world tick driver of main, its ticker and the clock
    sdrv,         \* the sandbox tick driver of main and the last hook call made
    ct,           \* the tasks inside the chunk operations of World and the chunk lock
    pm            \* PluginManager::plugins and the last hook dispatched to them

codecVars == <<debugBuild, vi, vl, fr, ps>>
serverVars == <<conn, wire, sent, rcv, entities, entity_counter, chunks, sessions>>
tickVars == <<worlds, sandboxes, wdrv, sdrv>>
concVars == <<ct, pm>>
apiVars == <<wop, gen, spawn, worlds, sandboxes, wdrv, sdrv, concVars>>
vars == <<debugBuild, vi, vl, fr, ps, conn, wire, sent, rcv, entities,
          entity_counter, chunks, sessions, wop, gen, spawn, worlds, sandboxes,
          wdrv, sdrv, ct, pm>>

----------------------------------------------------------------------------
(* Bounds of the model *)

\* the write loops are followed for at most this many emitted bytes
MaxEmit == 12

\* World::set_block is called at most this many times
MaxWrites == 2

\* Chunk::set_block is called at most this many times on the generated chunk
MaxChunkWrites == 2

\* World::spawn_player is called at most this many times by the tasks
MaxSpawns == 3

\* the concurrent tasks start to log in or to spawn a player while the
\* entity counter is at most this
MaxLogins == 1

\* the raw read buffers hold at most this many bytes
MaxRaw == 3

\* length of the long payload of the framing exercise (two-byte length prefix)
LongLen == 130

----------------------------------------------------------------------------
(* Fixed-width integers *)

MinI32 == -2147483647 - 1
MaxI32 == 2147483647

\* bit i of the two's-complement representation of the 32-bit integer v
Bit32(v, i) == IF i >= 31 THEN (IF v < 0 THEN 1 ELSE 0) ELSE (v \div (2^i)) % 2

RECURSIVE SumBits(_, _)
\* the unsigned value of bits 0..n-1 of f (n <= 31)
SumBits(f, n) == IF n = 0 THEN 0 ELSE f[n-1] * (2^(n-1)) + SumBits(f, n-1)

\* the 32-bit integer whose bits are f[0..31]
I32FromBits(f) == SumBits(f, 31) + (IF f[31] = 1 THEN MinI32 ELSE 0)

\* i32 `|`
Or32(a, b) ==
    I32FromBits([i \in 0..31 |-> IF Bit32(a, i) = 1 \/ Bit32(b, i) = 1 THEN 1 ELSE 0])

\* i32 `<<` by s in 0..31: bits 0..31-s of v move up by s, bit 31-s becomes
\* the sign, the bits above are lost
Shl32(v, s) ==
    IF s = 0 THEN v
    ELSE (v % (2^(31 - s))) * (2^s)
            + (IF (v \div (2^(31 - s))) % 2 = 1 THEN MinI32 ELSE 0)

\* i32 `>>` (arithmetic: the sign bit is replicated)
Sar32(v, s) == v \div (2^s)

\* `x as i64` for a 32-bit integer x (sign extension)
I64FromI32(v) == [i \in 0..63 |-> Bit32(v, i)]

\* `x as i32` for a 64-bit integer x (truncation)
I32FromI64(b) == I32FromBits([i \in 0..31 |-> b[i]])

\* `x as i64` for a byte x
I64FromByte(x) == [i \in 0..63 |-> IF i < 8 THEN (x \div (2^i)) % 2 ELSE 0]

Zero64 == [i \in 0..63 |-> 0]
Max64 == [i \in 0..63 |-> IF i = 63 THEN 0 ELSE 1]
Min64 == [i \in 0..63 |-> IF i = 63 THEN 1 ELSE 0]
Pow64(k) == [i \in 0..63 |-> IF i = k THEN 1 ELSE 0]

And64(a, b) == [i \in 0..63 |-> IF a[i] = 1 /\ b[i] = 1 THEN 1 ELSE 0]
Or64(a, b) == [i \in 0..63 |-> IF a[i] = 1 \/ b[i] = 1 THEN 1 ELSE 0]
\* i64 `<<` by s in 0..63
Shl64(a, s) == [i \in 0..63 |-> IF i >= s THEN a[i - s] ELSE 0]
\* i64 `>>` (arithmetic)
Sar64(a, s) == [i \in 0..63 |-> IF i + s <= 63 THEN a[i + s] ELSE a[63]]
\* the mask with the n low bits set
Mask64(n) == [i \in 0..63 |-> IF i < n THEN 1 ELSE 0]
\* `(x & 0x7F) as u8`
Low7(a) == SumBits(a, 7)

----------------------------------------------------------------------------
(* protocol/types.rs: variable-length integers *)

\* A read yields [kind, err, value, pos]: kind "ok" (Ok(value), cursor at
\* pos), "err" (Err(ProtocolError::err)) or "panic".  pos counts the bytes
\* consumed; v0 is the value field of a read that yields none.
ROk(v, p) == [kind |-> "ok", err |-> "", value |-> v, pos |-> p]
RErr(e, v0, p) == [kind |-> "err", err |-> e, value |-> v0, pos |-> p]
RPanic(v0, p) == [kind |-> "panic", err |-> "", value |-> v0, pos |-> p]

RECURSIVE ReadVarintLoop(_, _, _, _, _)
ReadVarintLoop(bytes, pos, num_read, result, dbg) ==
    IF pos >= Len(bytes)
    THEN RErr("InvalidPacket", 0, pos)
    ELSE LET read == bytes[pos + 1]
             value == read % 128
             shift == 7 * num_read
         IN  IF shift >= 32 /\ dbg
             THEN RPanic(0, pos + 1)
             ELSE LET result2 == Or32(result, Shl32(value, shift % 32))
                  IN  IF num_read + 1 > 5
                      THEN RErr("InvalidPacket", 0, pos + 1)
                      ELSE IF read < 128
                           THEN ROk(result2, pos + 1)
                           ELSE ReadVarintLoop(bytes, pos + 1, num_read + 1, result2, dbg)

\* MCReadExt::read_varint on a cursor at pos of bytes
ReadVarint(bytes, pos, dbg) == ReadVarintLoop(bytes, pos, 0, 0, dbg)

RECURSIVE ReadVarlongLoop(_, _, _, _, _)
ReadVarlongLoop(bytes, pos, num_read, result, dbg) ==
    IF pos >= Len(bytes)
    THEN RErr("InvalidPacket", Zero64, pos)
    ELSE LET read == bytes[pos + 1]
             value == I64FromByte(read % 128)
             shift == 7 * num_read
         IN  IF shift >= 64 /\ dbg
             THEN RPanic(Zero64, pos + 1)
             ELSE LET result2 == Or64(result, Shl64(value, shift % 64))
                  IN  IF num_read + 1 > 10
                      THEN RErr("InvalidPacket", Zero64, pos + 1)
                      ELSE IF read < 128
                           THEN ROk(result2, pos + 1)
                           ELSE ReadVarlongLoop(bytes, pos + 1, num_read + 1, result2, dbg)

\* MCReadExt::read_varlong
ReadVarlong(bytes, pos, dbg) == ReadVarlongLoop(bytes, pos, 0, Zero64, dbg)

\* One iteration of the loop of write_varint on [value, out, done]
WriteVarintIter(st) ==
    LET temp == st.value % 128
        value2 == Sar32(st.value, 7)
    IN  [value |-> value2,
         out |-> Append(st.out, IF value2 # 0 THEN temp + 128 ELSE temp),
         done |-> value2 = 0]

\* One iteration of the loop of write_varlong on [value, out, done]
WriteVarlongIter(st) ==
    LET temp == Low7(st.value)
        value2 == Sar64(st.value, 7)
    IN  [value |-> value2,
         out |-> Append(st.out, IF value2 # Zero64 THEN temp + 128 ELSE temp),
         done |-> value2 = Zero64]

RECURSIVE WriteVarintRun(_)
WriteVarintRun(st) == IF st.done THEN st.out ELSE WriteVarintRun(WriteVarintIter(st))

\* MCWriteExt::write_varint: the buffer out with the encoding of value appended
\* (the loop does not exit for value < 0)
WriteVarint(out, value) ==
    WriteVarintRun(WriteVarintIter([value |-> value, out |-> out, done |-> FALSE]))

RECURSIVE varint_len(_)
\* varint_len (the loop does not exit for value < 0)
varint_len(value) == IF Sar32(value, 7) = 0 THEN 1 ELSE 1 + varint_len(Sar32(value, 7))

----------------------------------------------------------------------------
(* protocol/types.rs: fixed-width fields and packed positions *)

\* Buf::get_i64 of the 8 bytes at pos (big-endian): bit i of the result
GetI64Bits(bytes, pos) ==
    [i \in 0..63 |-> (bytes[pos + 8 - (i \div 8)] \div (2^(i % 8))) % 2]

\* BufMut::put_i64: the 8 big-endian bytes of a 64-bit integer
PutI64(a) ==
    [k \in 1..8 |-> SumBits([j \in 0..7 |-> a[8 * (8 - k) + j]], 8)]

\* MCWriteExt::write_position: the bytes appended for (x, y, z)
WritePosition(x, y, z) ==
    LET val == Or64(Or64(Shl64(And64(I64FromI32(x), Mask64(26)), 38),
                         Shl64(And64(I64FromI32(z), Mask64(26)), 12)),
                    And64(I64FromI32(y), Mask64(12)))
    IN  PutI64(val)

\* read_position that masks the z field instead of sign-extending it
ReadPosition_ZMasked(bytes, pos) ==
    IF Len(bytes) - pos < 8
    THEN RPanic(<<0, 0, 0>>, pos)
    ELSE LET val == GetI64Bits(bytes, pos)
             x == I32FromI64(Sar64(val, 38))
             y == I32FromI64(Sar64(Shl64(val, 52), 52))
             z == I32FromI64(And64(Sar64(val, 12), Mask64(26)))
         IN  ROk(<<x, y, z>>, pos + 8)

\* MCReadExt::read_position on a cursor at pos; get_i64 panics on a short buffer
ReadPosition(bytes, pos) ==
    IF Len(bytes) - pos < 8
    THEN RPanic(<<0, 0, 0>>, pos)
    ELSE LET val == GetI64Bits(bytes, pos)
             x == I32FromI64(Sar64(val, 38))
             y == I32FromI64(Sar64(Shl64(val, 52), 52))
             z == I32FromI64(Sar64(Shl64(val, 26), 38))
         IN  ROk(<<x, y, z>>, pos + 8)

----------------------------------------------------------------------------
(* protocol/types.rs: PacketFrame *)

\* encode that leaves the packet id out of the length prefix
FrameEncode_LenWithoutId(id, data) ==
    WriteVarint(WriteVarint(<<>>, Len(data)), id) \o data

\* PacketFrame::encode
FrameEncode(id, data) ==
    LET data_len == varint_len(id) + Len(data)
    IN  WriteVarint(WriteVarint(<<>>, data_len), id) \o data

\* A decode yields [kind, err, id, data, rest]: kind "frame" (Ok(Some)),
\* "none" (Ok(None)), "err" (Err(err)) or "panic"; rest is the buffer left
\* behind.
FNone(buf) == [kind |-> "none", err |-> "", id |-> 0, data |-> <<>>, rest |-> buf]
FErr(e, buf) == [kind |-> "err", err |-> e, id |-> 0, data |-> <<>>, rest |-> buf]
FPanic(buf) == [kind |-> "panic", err |-> "", id |-> 0, data |-> <<>>, rest |-> buf]

\* decode that has advanced the buffer past the length prefix when it finds
\* the frame incomplete
FrameDecodeBody_ConsumesHeader(buf, header_len, total_len, dbg) ==
    IF Len(buf) < total_len
    THEN FNone(SubSeq(buf, header_len + 1, Len(buf)))
    ELSE LET rid == ReadVarint(buf, header_len, dbg)
         IN  [kind |-> "frame", err |-> "", id |-> rid.value,
              data |-> SubSeq(buf, rid.pos + 1, total_len),
              rest |-> SubSeq(buf, total_len + 1, Len(buf))]

\* The part of PacketFrame::decode after total_len is known
FrameDecodeBody(buf, header_len, total_len, dbg) ==
    IF Len(buf) < total_len
    THEN FNone(buf)
    ELSE LET rid == ReadVarint(buf, header_len, dbg)
             rest == SubSeq(buf, total_len + 1, Len(buf))
         IN  IF rid.kind = "panic" THEN FPanic(buf)
             ELSE IF rid.kind = "err" THEN FErr(rid.err, buf)
             ELSE IF rid.pos > total_len
                  THEN FPanic(rest)   \* slice(data_start..data_end), start > end
                  ELSE [kind |-> "frame", err |-> "", id |-> rid.value,
                        data |-> SubSeq(buf, rid.pos + 1, total_len),
                        rest |-> rest]

\* PacketFrame::decode.  `len as usize` of a negative len is 2^64 + len, so
\* header_len + packet_len either stays huge or overflows usize.
FrameDecode(buf, dbg) ==
    LET r == ReadVarint(buf, 0, dbg)
    IN  IF r.kind = "panic" THEN FPanic(buf)
        ELSE IF r.kind = "err" THEN FNone(buf)
        ELSE IF r.value >= 0
             THEN FrameDecodeBody(buf, r.pos, r.pos + r.value, dbg)
             ELSE IF r.pos + r.value < 0
                  THEN FNone(buf)            \* total_len > buf.len()
                  ELSE IF dbg
                       THEN FPanic(buf)      \* attempt to add with overflow
                       ELSE FrameDecodeBody(buf, r.pos, r.pos + r.value, dbg)

----------------------------------------------------------------------------
(* The codec exercised on inputs drawn from bounded sets *)

VarintInputs ==
    {0, 1, 2, 127, 128, 255, 300, 16383, 16384, 2097151, 2097152,
     268435455, 268435456, MaxI32, -1, -2, -128, -129, MinI32}

VarlongInputs ==
    {I64FromI32(v) : v \in VarintInputs}
        \cup {Max64, Min64, Pow64(31), Pow64(35), Pow64(56), Pow64(62)}

FrameIds == {0, 1, 127, 128, 16384, 268435455, 268435456}

\* a payload of n bytes that are not all alike
Pattern(n) == [i \in 1..n |-> (i * 7) % 256]

FramePayloads ==
    {<<>>, <<0>>, <<255>>, <<128, 1>>, <<0, 0>>}
        \cup {Pattern(n) : n \in {122, 123, 124, 125, 126, 127, LongLen}}

PositionXZ == {-33554432, -33554431, -17, -1, 0, 1, 3, 33554431}
PositionY == {-2048, -1, 0, 1, 64, 255, 2047}

IdleVarint == [pc |-> "idle", input |-> 0, st |-> [value |-> 0, out |-> <<>>, done |-> FALSE],
               res |-> RErr("", 0, 0)]
IdleVarlong == [pc |-> "idle", input |-> Zero64,
                st |-> [value |-> Zero64, out |-> <<>>, done |-> FALSE],
                res |-> RErr("", Zero64, 0)]
IdleFrame == [pc |-> "idle", id |-> 0, data |-> <<>>, buf |-> <<>>, before |-> <<>>,
              cut |-> FALSE, res |-> FNone(<<>>)]
IdlePosition == [pc |-> "idle", in |-> <<0, 0, 0>>, bytes |-> <<>>,
                 res |-> ROk(<<0, 0, 0>>, 0)]

CodecIdle ==
    /\ vi.pc = "idle"
    /\ vl.pc = "idle"
    /\ fr.pc = "idle"
    /\ ps.pc = "idle"

\* write_varint(v) is called on an empty buffer
VarintStart(v) ==
    /\ CodecIdle
    /\ vi' = [IdleVarint EXCEPT !.pc = "loop", !.input = v, !.st.value = v]
    /\ UNCHANGED <<debugBuild, vl, fr, ps>>
    /\ UNCHANGED <<serverVars, apiVars>>

\* one iteration of the loop of write_varint
VarintStep ==
    /\ vi.pc = "loop"
    /\ Len(vi.st.out) < MaxEmit
    /\ LET st2 == WriteVarintIter(vi.st)
       IN  vi' = [vi EXCEPT !.st = st2, !.pc = IF st2.done THEN "written" ELSE "loop"]
    /\ UNCHANGED <<debugBuild, vl, fr, ps>>
    /\ UNCHANGED <<serverVars, apiVars>>

\* read_varint on the bytes write_varint returned
VarintRead ==
    /\ vi.pc = "written"
    /\ vi' = [vi EXCEPT !.res = ReadVarint(vi.st.out, 0, debugBuild), !.pc = "read"]
    /\ UNCHANGED <<debugBuild, vl, fr, ps>>
    /\ UNCHANGED <<serverVars, apiVars>>

\* write_varlong(v) is called on an empty buffer
VarlongStart(v) ==
    /\ CodecIdle
    /\ vl' = [IdleVarlong EXCEPT !.pc = "loop", !.input = v, !.st.value = v]
    /\ UNCHANGED <<debugBuild, vi, fr, ps>>
    /\ UNCHANGED <<serverVars, apiVars>>

\* one iteration of the loop of write_varlong
VarlongStep ==
    /\ vl.pc = "loop"
    /\ Len(vl.st.out) < MaxEmit
    /\ LET st2 == WriteVarlongIter(vl.st)
       IN  vl' = [vl EXCEPT !.st = st2, !.pc = IF st2.done THEN "written" ELSE "loop"]
    /\ UNCHANGED <<debugBuild, vi, fr, ps>>
    /\ UNCHANGED <<serverVars, apiVars>>

\* read_varlong on the bytes write_varlong returned
VarlongRead ==
    /\ vl.pc = "written"
    /\ vl' = [vl EXCEPT !.res = ReadVarlong(vl.st.out, 0, debugBuild), !.pc = "read"]
    /\ UNCHANGED <<debugBuild, vi, fr, ps>>
    /\ UNCHANGED <<serverVars, apiVars>>

\* PacketFrame::new(id, data).encode() into an empty read buffer
FrameEncodeStep(id, data) ==
    /\ CodecIdle
    /\ fr' = [IdleFrame EXCEPT !.pc = "encoded", !.id = id, !.data = data,
                               !.buf = FrameEncode(id, data)]
    /\ UNCHANGED <<debugBuild, vi, vl, ps>>
    /\ UNCHANGED <<serverVars, apiVars>>

\* only the first k bytes of the frame have arrived
FrameTruncate(k) ==
    /\ fr.pc = "encoded"
    /\ ~fr.cut
    /\ k < Len(fr.buf)
    /\ fr' = [fr EXCEPT !.buf = SubSeq(fr.buf, 1, k), !.cut = TRUE]
    /\ UNCHANGED <<debugBuild, vi, vl, ps>>
    /\ UNCHANGED <<serverVars, apiVars>>

\* the bytes that the raw read buffers are made of
RawBytes == {0, 1, 2, 128, 255}

\* the length prefix -1, in the five bytes of its varint
NegativeLength == <<255, 255, 255, 255, 15>>

\* the contents of a read buffer: every sequence of at most MaxRaw bytes, and
\* a negative length prefix alone and followed by bytes
RawBuffers ==
    UNION {[1..n -> RawBytes] : n \in 0..MaxRaw}
        \cup {NegativeLength \o t : t \in {<<>>, <<0>>, <<1, 2>>}}

\* the peer has sent these bytes and read_buf has put them into the read
\* buffer
FrameReceive(buf) ==
    /\ CodecIdle
    /\ fr' = [IdleFrame EXCEPT !.pc = "encoded", !.buf = buf]
    /\ UNCHANGED <<debugBuild, vi, vl, ps>>
    /\ UNCHANGED <<serverVars, apiVars>>

\* PacketFrame::decode(&mut buf)
FrameDecodeStep ==
    /\ fr.pc = "encoded"
    /\ LET res == FrameDecode(fr.buf, debugBuild)
       IN  fr' = [fr EXCEPT !.pc = "decoded", !.before = fr.buf, !.res = res,
                            !.buf = res.rest]
    /\ UNCHANGED <<debugBuild, vi, vl, ps>>
    /\ UNCHANGED <<serverVars, apiVars>>

\* write_position(x, y, z) into an empty buffer
PositionWrite(x, y, z) ==
    /\ CodecIdle
    /\ ps' = [IdlePosition EXCEPT !.pc = "written", !.in = <<x, y, z>>,
                                  !.bytes = WritePosition(x, y, z)]
    /\ UNCHANGED <<debugBuild, vi, vl, fr>>
    /\ UNCHANGED <<serverVars, apiVars>>

\* read_position on the bytes write_position returned
PositionRead ==
    /\ ps.pc = "written"
    /\ ps' = [ps EXCEPT !.pc = "read", !.res = ReadPosition(ps.bytes, 0)]
    /\ UNCHANGED <<debugBuild, vi, vl, fr>>
    /\ UNCHANGED <<serverVars, apiVars>>

----------------------------------------------------------------------------
(* protocol/types.rs: strings, UUIDs and fixed-width reads on a cursor *)

IsCont(b) == b >= 128 /\ b <= 191

RECURSIVE Utf8Valid(_, _)
\* String::from_utf8 accepts the bytes from index i on
Utf8Valid(bytes, i) ==
    IF i > Len(bytes) THEN TRUE
    ELSE LET b == bytes[i]
             n == Len(bytes)
         IN  IF b < 128 THEN Utf8Valid(bytes, i + 1)
             ELSE IF b >= 194 /\ b <= 223
                  THEN i + 1 <= n /\ IsCont(bytes[i + 1]) /\ Utf8Valid(bytes, i + 2)
             ELSE IF b >= 224 /\ b <= 239
                  THEN /\ i + 2 <= n
                       /\ IsCont(bytes[i + 1])
                       /\ IsCont(bytes[i + 2])
                       /\ (b = 224 => bytes[i + 1] >= 160)
                       /\ (b = 237 => bytes[i + 1] <= 159)
                       /\ Utf8Valid(bytes, i + 3)
             ELSE IF b >= 240 /\ b <= 244
                  THEN /\ i + 3 <= n
                       /\ IsCont(bytes[i + 1])
                       /\ IsCont(bytes[i + 2])
                       /\ IsCont(bytes[i + 3])
                       /\ (b = 240 => bytes[i + 1] >= 144)
                       /\ (b = 244 => bytes[i + 1] <= 143)
                       /\ Utf8Valid(bytes, i + 4)
             ELSE FALSE

\* MCReadExt::read_string; the string is kept as its UTF-8 bytes
ReadString(data, pos, max_len, dbg) ==
    LET r == ReadVarint(data, pos, dbg)
    IN  IF r.kind # "ok" THEN [r EXCEPT !.value = <<>>]
        \* `len as usize` of a negative len exceeds max_len * 4
        ELSE IF r.value < 0 \/ r.value > max_len * 4
             THEN RErr("StringTooLong", <<>>, r.pos)
        ELSE IF Len(data) - r.pos < r.value
             THEN RErr("InvalidPacket", <<>>, r.pos)
        ELSE LET bytes == SubSeq(data, r.pos + 1, r.pos + r.value)
             IN  IF Utf8Valid(bytes, 1)
                 THEN ROk(bytes, r.pos + r.value)
                 ELSE RErr("InvalidPacket", <<>>, r.pos + r.value)

\* MCReadExt::read_uuid; the UUID is kept as its 16 bytes
ReadUuid(data, pos) ==
    IF Len(data) - pos < 16
    THEN RErr("InvalidPacket", <<>>, pos)
    ELSE ROk(SubSeq(data, pos + 1, pos + 16), pos + 16)

\* Buf::get_u8 / get_u16 / get_f32 / get_f64 ...: n bytes at pos, kept as
\* bytes; the bytes crate panics when fewer than n bytes remain
GetFixed(data, pos, n) ==
    IF Len(data) - pos < n
    THEN RPanic(<<>>, pos)
    ELSE ROk(SubSeq(data, pos + 1, pos + n), pos + n)

\* Buf::get_i64
GetI64(data, pos) ==
    IF Len(data) - pos < 8
    THEN RPanic(Zero64, pos)
    ELSE ROk(GetI64Bits(data, pos), pos + 8)

\* `vec![0u8; len]; cursor.copy_to_slice(..)` with len read as a varint:
\* panics when len (as usize) exceeds what remains
ReadLenPrefixed(data, pos, dbg) ==
    LET r == ReadVarint(data, pos, dbg)
    IN  IF r.kind # "ok" THEN [r EXCEPT !.value = <<>>]
        ELSE IF r.value < 0 \/ Len(data) - r.pos < r.value
             THEN RPanic(<<>>, r.pos)
             ELSE ROk(SubSeq(data, r.pos + 1, r.pos + r.value), r.pos + r.value)

----------------------------------------------------------------------------
(* protocol/packets.rs: ServerBoundPacket::decode *)

PktOk(p) == [kind |-> "ok", err |-> "", pkt |-> p]
PktErr(e) == [kind |-> "err", err |-> e, pkt |-> [type |-> "none"]]
PktPanic == [kind |-> "panic", err |-> "", pkt |-> [type |-> "none"]]
\* the outcome of a failed field read, as the `?` operator or the panic passes it on
PktFail(r) == IF r.kind = "panic" THEN PktPanic ELSE PktErr(r.err)

\* Handshaking, id 0x00
DecodeHandshake(data, dbg) ==
    LET pv == ReadVarint(data, 0, dbg) IN
    IF pv.kind # "ok" THEN PktFail(pv) ELSE
    LET addr == ReadString(data, pv.pos, 255, dbg) IN
    IF addr.kind # "ok" THEN PktFail(addr) ELSE
    LET port == GetFixed(data, addr.pos, 2) IN
    IF port.kind # "ok" THEN PktFail(port) ELSE
    LET ns == ReadVarint(data, port.pos, dbg) IN
    IF ns.kind # "ok" THEN PktFail(ns) ELSE
    PktOk([type |-> "Handshake", protocol_version |-> pv.value,
           server_address |-> addr.value,
           server_port |-> port.value[1] * 256 + port.value[2],
           next_state |-> ns.value])

\* Status, id 0x01
DecodeStatusPing(data) ==
    LET r == GetI64(data, 0) IN
    IF r.kind # "ok" THEN PktFail(r) ELSE
    PktOk([type |-> "StatusPing", payload |-> r.value])

\* Login, id 0x00
DecodeLoginStart(data, dbg) ==
    LET name == ReadString(data, 0, 16, dbg) IN
    IF name.kind # "ok" THEN PktFail(name) ELSE
    IF Len(data) - name.pos >= 16
    THEN LET u == ReadUuid(data, name.pos) IN
         IF u.kind # "ok" THEN PktFail(u) ELSE
         PktOk([type |-> "LoginStart", name |-> name.value, uuid |-> <<u.value>>])
    ELSE PktOk([type |-> "LoginStart", name |-> name.value, uuid |-> <<>>])

\* Login, id 0x01
DecodeLoginEncryptionResponse(data, dbg) ==
    LET secret == ReadLenPrefixed(data, 0, dbg) IN
    IF secret.kind # "ok" THEN PktFail(secret) ELSE
    LET token == ReadLenPrefixed(data, secret.pos, dbg) IN
    IF token.kind # "ok" THEN PktFail(token) ELSE
    PktOk([type |-> "LoginEncryptionResponse", shared_secret |-> secret.value,
           verify_token |-> token.value])

\* Login, id 0x02
DecodeLoginPluginResponse(data, dbg) ==
    LET mid == ReadVarint(data, 0, dbg) IN
    IF mid.kind # "ok" THEN PktFail(mid) ELSE
    LET succ == GetFixed(data, mid.pos, 1) IN
    IF succ.kind # "ok" THEN PktFail(succ) ELSE
    PktOk([type |-> "LoginPluginResponse", message_id |-> mid.value,
           data |-> IF succ.value[1] # 0
                    THEN <<SubSeq(data, succ.pos + 1, Len(data))>>
                    ELSE <<>>])

\* Play, id 0x0F
DecodeKeepAlive(data) ==
    LET r == GetI64(data, 0) IN
    IF r.kind # "ok" THEN PktFail(r) ELSE
    PktOk([type |-> "KeepAlive", id |-> r.value])

\* Play, id 0x05
DecodeChatMessage(data, dbg) ==
    LET m == ReadString(data, 0, 256, dbg) IN
    IF m.kind # "ok" THEN PktFail(m) ELSE
    PktOk([type |-> "ChatMessage", message |-> m.value])

\* Play, id 0x14: three f64 and a flag
DecodePlayerPosition(data) ==
    LET r == GetFixed(data, 0, 25) IN
    IF r.kind # "ok" THEN PktFail(r) ELSE
    PktOk([type |-> "PlayerPosition", x |-> SubSeq(data, 1, 8), y |-> SubSeq(data, 9, 16),
           z |-> SubSeq(data, 17, 24), on_ground |-> data[25] # 0])

\* Play, id 0x15: two f32 and a flag
DecodePlayerRotation(data) ==
    LET r == GetFixed(data, 0, 9) IN
    IF r.kind # "ok" THEN PktFail(r) ELSE
    PktOk([type |-> "PlayerRotation", yaw |-> SubSeq(data, 1, 4),
           pitch |-> SubSeq(data, 5, 8), on_ground |-> data[9] # 0])

\* Play, id 0x16: three f64, two f32 and a flag
DecodePlayerPositionAndRotation(data) ==
    LET r == GetFixed(data, 0, 33) IN
    IF r.kind # "ok" THEN PktFail(r) ELSE
    PktOk([type |-> "PlayerPositionAndRotation", x |-> SubSeq(data, 1, 8),
           y |-> SubSeq(data, 9, 16), z |-> SubSeq(data, 17, 24),
           yaw |-> SubSeq(data, 25, 28), pitch |-> SubSeq(data, 29, 32),
           on_ground |-> data[33] # 0])

\* Play, id 0x1A
DecodePlayerDigging(data, dbg) ==
    LET st == ReadVarint(data, 0, dbg) IN
    IF st.kind # "ok" THEN PktFail(st) ELSE
    LET loc == ReadPosition(data, st.pos) IN
    IF loc.kind # "ok" THEN PktFail(loc) ELSE
    LET face == GetFixed(data, loc.pos, 1) IN
    IF face.kind # "ok" THEN PktFail(face) ELSE
    PktOk([type |-> "PlayerDigging", status |-> st.value, location |-> loc.value,
           face |-> face.value[1]])

\* Play, id 0x2E
DecodePlayerBlockPlacement(data, dbg) ==
    LET hand == ReadVarint(data, 0, dbg) IN
    IF hand.kind # "ok" THEN PktFail(hand) ELSE
    LET loc == ReadPosition(data, hand.pos) IN
    IF loc.kind # "ok" THEN PktFail(loc) ELSE
    LET face == ReadVarint(data, loc.pos, dbg) IN
    IF face.kind # "ok" THEN PktFail(face) ELSE
    LET cur == GetFixed(data, face.pos, 13) IN
    IF cur.kind # "ok" THEN PktFail(cur) ELSE
    PktOk([type |-> "PlayerBlockPlacement", location |-> loc.value, face |-> face.value,
           hand |-> hand.value, cursor |-> SubSeq(cur.value, 1, 12),
           inside_block |-> cur.value[13] # 0])

\* Play, id 0x0A
DecodePluginMessage(data, dbg) ==
    LET ch == ReadString(data, 0, 256, dbg) IN
    IF ch.kind # "ok" THEN PktFail(ch) ELSE
    PktOk([type |-> "PluginMessage", channel |-> ch.value,
           data |-> SubSeq(data, ch.pos + 1, Len(data))])

\* decode that takes id 0x00 in Play for a LoginStart
PacketDecode_LoginStartInPlay(state, id, data, dbg) ==
    CASE state = "Handshaking" ->
           IF id = 0 THEN DecodeHandshake(data, dbg) ELSE PktErr("InvalidPacket")
      [] state = "Status" ->
           IF id = 0 THEN PktOk([type |-> "StatusRequest"])
           ELSE IF id = 1 THEN DecodeStatusPing(data)
           ELSE PktErr("InvalidPacket")
      [] state = "Login" ->
           IF id = 0 THEN DecodeLoginStart(data, dbg)
           ELSE IF id = 1 THEN DecodeLoginEncryptionResponse(data, dbg)
           ELSE IF id = 2 THEN DecodeLoginPluginResponse(data, dbg)
           ELSE PktErr("InvalidPacket")
      [] state = "Play" ->
           IF id = 0 THEN DecodeLoginStart(data, dbg)
           ELSE IF id = 15 THEN DecodeKeepAlive(data)
           ELSE IF id = 5 THEN DecodeChatMessage(data, dbg)
           ELSE IF id = 20 THEN DecodePlayerPosition(data)
           ELSE IF id = 21 THEN DecodePlayerRotation(data)
           ELSE IF id = 22 THEN DecodePlayerPositionAndRotation(data)
           ELSE IF id = 26 THEN DecodePlayerDigging(data, dbg)
           ELSE IF id = 46 THEN DecodePlayerBlockPlacement(data, dbg)
           ELSE IF id = 10 THEN DecodePluginMessage(data, dbg)
           ELSE PktErr("InvalidPacket")

\* ServerBoundPacket::decode(state, id, data)
PacketDecode(state, id, data, dbg) ==
    CASE state = "Handshaking" ->
           IF id = 0 THEN DecodeHandshake(data, dbg) ELSE PktErr("InvalidPacket")
      [] state = "Status" ->
           IF id = 0 THEN PktOk([type |-> "StatusRequest"])
           ELSE IF id = 1 THEN DecodeStatusPing(data)
           ELSE PktErr("InvalidPacket")
      [] state = "Login" ->
           IF id = 0 THEN DecodeLoginStart(data, dbg)
           ELSE IF id = 1 THEN DecodeLoginEncryptionResponse(data, dbg)
           ELSE IF id = 2 THEN DecodeLoginPluginResponse(data, dbg)
           ELSE PktErr("InvalidPacket")
      [] state = "Play" ->
           IF id = 15 THEN DecodeKeepAlive(data)
           ELSE IF id = 5 THEN DecodeChatMessage(data, dbg)
           ELSE IF id = 20 THEN DecodePlayerPosition(data)
           ELSE IF id = 21 THEN DecodePlayerRotation(data)
           ELSE IF id = 22 THEN DecodePlayerPositionAndRotation(data)
           ELSE IF id = 26 THEN DecodePlayerDigging(data, dbg)
           ELSE IF id = 46 THEN DecodePlayerBlockPlacement(data, dbg)
           ELSE IF id = 10 THEN DecodePluginMessage(data, dbg)
           ELSE PktErr("InvalidPacket")

----------------------------------------------------------------------------
(* The clients: what they put on the wire *)

Conns == {"c1", "c2"}

\* a UUID, as its 16 bytes
UuidBytes(k) == [i \in 1..16 |-> k]
ClientUuids == {UuidBytes(1), UuidBytes(2)}
\* the values Uuid::new_v4() may return
RandomUuids == {UuidBytes(17), UuidBytes(18)}

\* 0x00000000DEADBEEF
PingPayload == GetI64Bits(<<0, 0, 0, 0, 222, 173, 190, 239>>, 0)

HandshakeFrame(next) ==
    FrameEncode(0, WriteVarint(<<>>, 762) \o <<1, 120>> \o <<99, 221>>
                       \o WriteVarint(<<>>, next))
StatusRequestFrame == FrameEncode(0, <<>>)
StatusPingFrame(n) == FrameEncode(1, PutI64(n))
LoginStartFrame(name, uuid) == FrameEncode(0, <<Len(name)>> \o name \o uuid)
KeepAliveFrame(n) == FrameEncode(15, PutI64(n))
PlayerPositionFrame == FrameEncode(20, [i \in 1..25 |-> i])
EncryptionResponseFrame == FrameEncode(1, <<1, 9, 1, 8>>)
EmptyFrame(id) == FrameEncode(id, <<>>)

\* a length prefix of six bytes
OverlongLengthBytes == <<128, 128, 128, 128, 128, 1>>
\* a Handshake whose server_address is the single byte 0xFF
BadUtf8HandshakeFrame ==
    FrameEncode(0, WriteVarint(<<>>, 762) \o <<1, 255>> \o <<99, 221>> \o <<1>>)
\* a Handshake whose server_address declares 1021 bytes (more than 4 * 255)
LongStringHandshakeFrame ==
    FrameEncode(0, WriteVarint(<<>>, 762) \o WriteVarint(<<>>, 1021) \o <<99, 221, 1>>)

\* the frame sequences a client may send
Scripts ==
    { <<HandshakeFrame(1), StatusRequestFrame, StatusPingFrame(PingPayload)>>,
      <<HandshakeFrame(1), StatusPingFrame(Max64), StatusRequestFrame>>,
      <<HandshakeFrame(2), LoginStartFrame(<<97>>, UuidBytes(1)),
        KeepAliveFrame(Pow64(35)), PlayerPositionFrame>>,
      <<HandshakeFrame(2), LoginStartFrame(<<98>>, <<>>), KeepAliveFrame(Min64)>>,
      <<HandshakeFrame(2), LoginStartFrame(<<97>>, UuidBytes(1)),
        LoginStartFrame(<<97>>, UuidBytes(1))>>,
      <<HandshakeFrame(1), EmptyFrame(5), StatusRequestFrame>>,
      <<HandshakeFrame(2), LoginStartFrame(<<98>>, UuidBytes(2)), EmptyFrame(127),
        KeepAliveFrame(Zero64)>>,
      <<HandshakeFrame(2), KeepAliveFrame(Zero64), LoginStartFrame(<<98>>, UuidBytes(2))>>,
      <<HandshakeFrame(2), EncryptionResponseFrame, LoginStartFrame(<<97>>, UuidBytes(2))>>,
      <<HandshakeFrame(3), HandshakeFrame(1), StatusRequestFrame>>,
      <<EmptyFrame(1), HandshakeFrame(1)>>,
      <<OverlongLengthBytes, HandshakeFrame(1)>>,
      <<BadUtf8HandshakeFrame, StatusRequestFrame>>,
      <<LongStringHandshakeFrame, StatusRequestFrame>> }

\* BufMut::put_f64 and put_f32 on the client's side, for a whole number below
\* 2^20: sign 0, biased exponent, and the fraction, of which only the top
\* bits are set
Exponent(v) == CHOOSE e \in 0..20 : 2^e <= v /\ v < 2^(e + 1)

Be32(w) == <<w \div 2^24, (w \div 2^16) % 256, (w \div 2^8) % 256, w % 256>>

PutF64(v) ==
    IF v = 0 THEN <<0, 0, 0, 0, 0, 0, 0, 0>>
    ELSE LET e == Exponent(v)
         IN  Be32((1023 + e) * 2^20 + (v - 2^e) * 2^(20 - e)) \o <<0, 0, 0, 0>>

PutF32(v) ==
    IF v = 0 THEN <<0, 0, 0, 0>>
    ELSE LET e == Exponent(v)
         IN  Be32((127 + e) * 2^23 + (v - 2^e) * 2^(23 - e))

\* the frames of the Play state
ChatMessageFrame == FrameEncode(5, <<2, 104, 105>>)

PlayerPositionFrameAt(x, y, z) ==
    FrameEncode(20, PutF64(x) \o PutF64(y) \o PutF64(z) \o <<1>>)

PlayerRotationFrameAt(yaw, pitch) ==
    FrameEncode(21, PutF32(yaw) \o PutF32(pitch) \o <<1>>)

PlayerPositionAndRotationFrameAt(x, y, z, yaw, pitch) ==
    FrameEncode(22, PutF64(x) \o PutF64(y) \o PutF64(z) \o PutF32(yaw) \o PutF32(pitch)
                    \o <<1>>)

\* hand 0, the location, face 1, a cursor of three f32 and inside_block
PlayerBlockPlacementFrame(x, y, z) ==
    FrameEncode(46, WriteVarint(<<>>, 0) \o WritePosition(x, y, z) \o WriteVarint(<<>>, 1)
                    \o PutF32(0) \o PutF32(1) \o PutF32(0) \o <<0>>)

\* the frame sequences of a client that logs in and plays
PlayScripts ==
    { <<HandshakeFrame(2), LoginStartFrame(<<97>>, UuidBytes(1)), ChatMessageFrame,
        PlayerBlockPlacementFrame(3, 64, 5)>>,
      <<HandshakeFrame(2), LoginStartFrame(<<98>>, UuidBytes(2)),
        PlayerPositionFrameAt(1, 65, 2), PlayerRotationFrameAt(90, 45),
        PlayerPositionAndRotationFrameAt(3, 66, 4, 180, 30), KeepAliveFrame(Zero64)>> }

RECURSIVE Concat(_)
Concat(ss) == IF ss = <<>> THEN <<>> ELSE Head(ss) \o Concat(Tail(ss))

RECURSIVE Halves(_)
\* every frame arrives in two segments
Halves(ss) ==
    IF ss = <<>> THEN <<>>
    ELSE LET f == Head(ss)
             h == (Len(f) + 1) \div 2
         IN  <<SubSeq(f, 1, h), SubSeq(f, h + 1, Len(f))>> \o Halves(Tail(ss))

\* how TCP cuts the byte stream of a script into reads
Segmentations(script) == {script, <<Concat(script)>>, Halves(script)}

----------------------------------------------------------------------------
(* world/manager.rs and world/entity.rs *)

\* Player::new(username)
NewPlayer(username) ==
    [username |-> username, gamemode |-> "Survival", health |-> 20, food |-> 20,
     level |-> 0, experience |-> 0]

\* Health::new(max)
NewHealth(max) == [current |-> max, max |-> max]

\* World::spawn_player: the store and the counter after the spawn; the
\* entity handle returned is the index of the new entity
spawn_player(ents, counter, username, uuid) ==
    [entities |-> Append(ents,
                    [EntityId |-> counter,
                     EntityUuid |-> uuid,
                     EntityType |-> "player",
                     Player |-> NewPlayer(username),
                     Position |-> <<0, 64, 0>>,
                     Rotation |-> <<0, 0>>,
                     Velocity |-> <<0, 0, 0>>,
                     OnGround |-> FALSE,
                     Health |-> NewHealth(20)]),
     counter |-> counter + 1,
     entity |-> Len(ents) + 1]

\* HashMap::insert on the session map
SessionInsert(map, key, val) ==
    [k \in DOMAIN map \cup {key} |-> IF k = key THEN val ELSE map[k]]

----------------------------------------------------------------------------
(* world/chunk.rs *)

CHUNK_WIDTH == 16
CHUNK_HEIGHT == 384
SECTION_HEIGHT == 16
SECTIONS_PER_CHUNK == CHUNK_HEIGHT \div SECTION_HEIGHT

\* a vector of zeros, kept as the map of the indices written so far: an index
\* outside the map still holds its initial 0
NoBlocks == [i \in {} |-> 0]

\* ChunkSection::new; block_light and sky_light are never written afterwards
\* and are kept out of the state
ChunkSection_new == [blocks |-> NoBlocks]

block_count == CHUNK_WIDTH * SECTION_HEIGHT * CHUNK_WIDTH
light_count == block_count \div 2

\* ChunkSection::get_block
ChunkSection_get_block(section, x, y, z) ==
    LET index == (y * CHUNK_WIDTH * CHUNK_WIDTH) + (z * CHUNK_WIDTH) + x
    IN  IF index \in DOMAIN section.blocks THEN section.blocks[index] ELSE 0

\* ChunkSection::set_block
ChunkSection_set_block(section, x, y, z, block_id) ==
    LET index == (y * CHUNK_WIDTH * CHUNK_WIDTH) + (z * CHUNK_WIDTH) + x
    IN  [section EXCEPT !.blocks = (index :> block_id) @@ @]

\* ChunkSection::is_empty that takes a block written as 0 for a block
ChunkSection_is_empty_Unwritten(section) ==
    DOMAIN section.blocks = {}

\* ChunkSection::is_empty
ChunkSection_is_empty(section) ==
    \A i \in DOMAIN section.blocks : section.blocks[i] = 0

\* BufMut::put_u16 / put_i16 of a value in 0..65535
PutU16(v) == <<v \div 256, v % 256>>

\* BufMut::put_i32
PutI32(v) ==
    LET u == IF v < 0 THEN v + 2147483647 + 1 ELSE v
        top == IF v < 0 THEN 128 ELSE 0
    IN  <<top + (u \div 16777216), (u \div 65536) % 256, (u \div 256) % 256, u % 256>>

\* ChunkSection::encode
ChunkSection_encode(section) ==
    PutU16(Cardinality({i \in DOMAIN section.blocks : section.blocks[i] # 0}))
        \o [k \in 1..(2 * block_count) |->
              LET index == (k - 1) \div 2
                  block == IF index \in DOMAIN section.blocks
                           THEN section.blocks[index] ELSE 0
              IN  IF k % 2 = 1 THEN block \div 256 ELSE block % 256]
        \o [k \in 1..light_count |-> 0]
        \o [k \in 1..light_count |-> 255]

\* Chunk::new
Chunk_new(position) ==
    [position |-> position,
     sections |-> [s \in 0..(SECTIONS_PER_CHUNK - 1) |-> ChunkSection_new],
     heightmap |-> [i \in 0..(CHUNK_WIDTH * CHUNK_WIDTH - 1) |-> 0],
     biomes |-> [i \in 0..(CHUNK_WIDTH * CHUNK_WIDTH - 1) |-> 1]]

\* Chunk::get_block
Chunk_get_block(chunk, x, y, z) ==
    LET section_index == y \div SECTION_HEIGHT
        section_y == y % SECTION_HEIGHT
    IN  IF section_index >= SECTIONS_PER_CHUNK
        THEN 0
        ELSE ChunkSection_get_block(chunk.sections[section_index], x, section_y, z)

\* Chunk::set_block
Chunk_set_block(chunk, x, y, z, block_id) ==
    LET section_index == y \div SECTION_HEIGHT
        section_y == y % SECTION_HEIGHT
        heightmap_index == z * CHUNK_WIDTH + x
    IN  IF section_index >= SECTIONS_PER_CHUNK
        THEN chunk
        ELSE [chunk EXCEPT
                !.sections[section_index] =
                    ChunkSection_set_block(@, x, section_y, z, block_id),
                !.heightmap[heightmap_index] =
                    IF block_id # 0 /\ y > @ THEN y ELSE @]

RECURSIVE FlatDirt(_, _, _, _, _)
\* generate_flat: `for y in 1..height.saturating_sub(1)`, from y on
FlatDirt(chunk, x, z, y, height) ==
    IF y >= height - 1
    THEN chunk
    ELSE FlatDirt(Chunk_set_block(chunk, x, y, z, 3), x, z, y + 1, height)

\* the loop body of generate_flat without the assignment that ends it
FlatColumn_NoHeightmap(chunk, x, z, height) ==
    LET bedrock == Chunk_set_block(chunk, x, 0, z, 7)
        dirt == FlatDirt(bedrock, x, z, 1, height)
    IN  IF height > 1 THEN Chunk_set_block(dirt, x, height - 1, z, 2) ELSE dirt

\* generate_flat: the body of the two loops, for the column (x, z)
FlatColumn(chunk, x, z, height) ==
    LET bedrock == Chunk_set_block(chunk, x, 0, z, 7)
        dirt == FlatDirt(bedrock, x, z, 1, height)
        grass == IF height > 1 THEN Chunk_set_block(dirt, x, height - 1, z, 2) ELSE dirt
    IN  [grass EXCEPT !.heightmap[z * CHUNK_WIDTH + x] = height]

\* the block that the loops of generate_flat write last at height y of every
\* column, 0 when they write none there
FlatBlock(y, height) ==
    IF y >= CHUNK_HEIGHT THEN 0
    ELSE IF height > 1 /\ y = height - 1 THEN 2
    ELSE IF 1 <= y /\ y < height - 1 THEN 3
    ELSE IF y = 0 THEN 7
    ELSE 0

\* the writes of generate_flat that fall into section s
FlatWrites(s, height) ==
    [index \in {i \in 0..(block_count - 1) :
                   FlatBlock(s * SECTION_HEIGHT + i \div (CHUNK_WIDTH * CHUNK_WIDTH),
                             height) # 0} |->
        FlatBlock(s * SECTION_HEIGHT + index \div (CHUNK_WIDTH * CHUNK_WIDTH), height)]

\* Chunk::generate_flat, all 256 columns at once: every column gets the same
\* writes, and the assignment that ends the loop body overwrites whatever
\* set_block has put into the heightmap
generate_flat(chunk, height) ==
    [chunk EXCEPT
        !.sections = [s \in DOMAIN @ |->
                        [@[s] EXCEPT !.blocks = FlatWrites(s, height) @@ @]],
        !.heightmap = [i \in DOMAIN @ |-> height]]

\* `for v in &vec { buf.put_i32(*v) }` over a vector of n values
EncodeI32s(vec, n) ==
    [k \in 1..(4 * n) |-> PutI32(vec[(k - 1) \div 4])[((k - 1) % 4) + 1]]

RECURSIVE EncodeSections(_, _)
\* Chunk::encode: the loop over the sections, from section s on
EncodeSections(chunk, s) ==
    IF s >= SECTIONS_PER_CHUNK THEN <<>>
    ELSE (IF ChunkSection_is_empty(chunk.sections[s])
          THEN <<0>>
          ELSE <<1>> \o ChunkSection_encode(chunk.sections[s]))
         \o EncodeSections(chunk, s + 1)

\* Chunk::encode
Chunk_encode(chunk) ==
    EncodeI32s(chunk.heightmap, CHUNK_WIDTH * CHUNK_WIDTH)
        \o EncodeSections(chunk, 0)
        \o EncodeI32s(chunk.biomes, CHUNK_WIDTH * CHUNK_WIDTH)

----------------------------------------------------------------------------
(* world/manager.rs: the chunk map *)

\* HashMap::new
NoChunks == [key \in {} |-> 0]

\* World::set_chunk: insert under (position.x, position.z)
set_chunk(chs, chunk) == (chunk.position :> chunk) @@ chs

\* the chunk that generate_flat(4) makes of a new chunk; generate_flat never
\* reads the position
FlatChunk == generate_flat(Chunk_new(<<0, 0>>), 4)

\* World::generate_chunk: the chunk generated, which it also inserts
generate_chunk(x, z) == [FlatChunk EXCEPT !.position = <<x, z>>]

\* World::get_or_generate_chunk: the chunk map afterwards
get_or_generate_chunk(chs, x, z) ==
    IF <<x, z>> \in DOMAIN chs THEN chs ELSE set_chunk(chs, generate_chunk(x, z))

\* `x & 15` on an i32
LocalCoord(v) == v % CHUNK_WIDTH

\* World::get_block reading through get_or_generate_chunk instead of get_chunk
World_get_block_Generates(chs, x, y, z) ==
    LET chunk_x == Sar32(x, 4)
        chunk_z == Sar32(z, 4)
    IN  IF y >= 0 /\ y < CHUNK_HEIGHT
        THEN Chunk_get_block(get_or_generate_chunk(chs, chunk_x, chunk_z)[<<chunk_x, chunk_z>>],
                             LocalCoord(x), y, LocalCoord(z))
        ELSE 0

\* World::get_block
World_get_block(chs, x, y, z) ==
    LET chunk_x == Sar32(x, 4)
        chunk_z == Sar32(z, 4)
    IN  IF <<chunk_x, chunk_z>> \in DOMAIN chs
        THEN IF y >= 0 /\ y < CHUNK_HEIGHT
             THEN Chunk_get_block(chs[<<chunk_x, chunk_z>>],
                                  LocalCoord(x), y, LocalCoord(z))
             ELSE 0
        ELSE 0

\* World::set_block where the chunk generated for an absent key is inserted
\* by generate_chunk and the written clone is dropped
World_set_block_DropsClone(chs, x, y, z, block_id) ==
    LET chunk_x == Sar32(x, 4)
        chunk_z == Sar32(z, 4)
        key == <<chunk_x, chunk_z>>
    IN  IF key \in DOMAIN chs
        THEN IF y >= 0 /\ y < CHUNK_HEIGHT
             THEN set_chunk(chs, Chunk_set_block(chs[key], LocalCoord(x), y, LocalCoord(z),
                                                 block_id))
             ELSE chs
        ELSE set_chunk(chs, generate_chunk(chunk_x, chunk_z))

\* World::set_block: the chunk map afterwards
World_set_block(chs, x, y, z, block_id) ==
    LET chunk_x == Sar32(x, 4)
        chunk_z == Sar32(z, 4)
        key == <<chunk_x, chunk_z>>
        chunk == IF key \in DOMAIN chs THEN chs[key] ELSE generate_chunk(chunk_x, chunk_z)
    IN  IF y >= 0 /\ y < CHUNK_HEIGHT
        THEN set_chunk(chs, Chunk_set_block(chunk, LocalCoord(x), y, LocalCoord(z),
                                            block_id))
        ELSE set_chunk(chs, chunk)

----------------------------------------------------------------------------
(* server/mod.rs: what the handlers write *)

view_distance == 2

\* send_spawn_chunks with half-open ranges (`..` for `..=`)
SpawnChunkOrder_Exclusive ==
    LET w == 2 * view_distance
    IN  [k \in 1..(w * w) |->
            <<((k - 1) \div w) - view_distance, ((k - 1) % w) - view_distance>>]

\* send_spawn_chunks(conn, 0, 0): the chunk keys in the order of the loops
SpawnChunkOrder ==
    LET w == 2 * view_distance + 1
    IN  [k \in 1..(w * w) |->
            <<((k - 1) \div w) - view_distance, ((k - 1) % w) - view_distance>>]

StatusResponsePacket ==
    [type |-> "StatusResponse", version_name |-> "1.19.4", protocol |-> 762,
     max |-> 20, online |-> 0]

\* the packets of the LoginStart arm of handle_packet, in the order written
LoginWrites(uuid, name) ==
    <<[type |-> "LoginSuccess", uuid |-> uuid, username |-> name],
      [type |-> "JoinGame", entity_id |-> 1, gamemode |-> 1, view_distance |-> 10],
      [type |-> "PlayerPositionAndLook", x |-> 0, y |-> 64, z |-> 0, teleport_id |-> 0]>>
      \o [k \in 1..Len(SpawnChunkOrder) |->
            [type |-> "ChunkData", x |-> SpawnChunkOrder[k][1], z |-> SpawnChunkOrder[k][2]]]

RECURSIVE SpawnChunks(_, _)
\* send_spawn_chunks: the chunk map after get_or_generate_chunk for the first
\* n keys of the loops
SpawnChunks(chs, n) ==
    IF n = 0 THEN chs
    ELSE get_or_generate_chunk(SpawnChunks(chs, n - 1),
                               SpawnChunkOrder[n][1], SpawnChunkOrder[n][2])

\* no call on the world yet
NoCall == [op |-> "none", args |-> <<>>, value |-> 0, locks |-> <<>>, writes |-> 0]

\* which of the n writes of a handler fails with an I/O error (0: none); of
\* the chunk writes, the first and the last
FailPoints(n) == {f \in {0, 1, 2, 3, 4, n} : f <= n}

\* the packets that reach the stream when write number f fails
Written(ws, f) == IF f = 0 THEN ws ELSE SubSeq(ws, 1, f - 1)

----------------------------------------------------------------------------
(* protocol/connection.rs and server/mod.rs: one task per connection *)

\* MinecraftConnection::new
NewConnection ==
    [status |-> "open", state |-> "Handshaking", read_buffer |-> <<>>, close |-> ""]

NoConnection ==
    [status |-> "none", state |-> "Handshaking", read_buffer |-> <<>>, close |-> ""]

\* the connection once its task has ended; reason is "eof" (read_packet
\* returned Ok(None)), "done" (a handler returned Ok(false)), "panic", or the
\* ProtocolError that handle_connection returned
Closed(cn, reason) ==
    [status |-> "closed", state |-> cn.state, read_buffer |-> <<>>, close |-> reason]

\* PacketFrame::decode on the read buffer, as read_packet calls it
Cur(c) == FrameDecode(conn[c].read_buffer, debugBuild)

\* the outcome of ServerBoundPacket::decode with the buffer left behind the frame
WithRest(p, rest) == [kind |-> p.kind, err |-> p.err, pkt |-> p.pkt, rest |-> rest]

\* what read_packet makes of the outcome of PacketFrame::decode: "none" when
\* the buffer holds no whole frame, else the outcome of
\* ServerBoundPacket::decode on the frame and the buffer left behind it
PacketOf(state, frame, dbg) ==
    IF frame.kind = "frame"
    THEN WithRest(PacketDecode(state, frame.id, frame.data, dbg), frame.rest)
    ELSE [kind |-> frame.kind, err |-> frame.err, pkt |-> [type |-> "none"],
          rest |-> frame.rest]

\* the outcome of read_packet on what the read buffer holds
CurPkt(c) == PacketOf(conn[c].state, Cur(c), debugBuild)

\* read_packet returns Ok(Some(packet)) with a packet of one of the given types
Returns(c, r, types) ==
    /\ conn[c].status = "open"
    /\ r.kind = "ok"
    /\ r.pkt.type \in types

\* a handler whose writes are put in front of what was written before
Handled_WritesInFront(c, r, st, ws, f, go_on) ==
    /\ rcv' = [rcv EXCEPT ![c] = Append(@, r.pkt)]
    /\ sent' = [sent EXCEPT ![c] = Written(ws, f) \o @]
    /\ IF f # 0
       THEN /\ conn' = [conn EXCEPT ![c] =
                          Closed([@ EXCEPT !.state = st], "Io")]
            /\ wire' = [wire EXCEPT ![c] = <<>>]
       ELSE IF ~go_on
       THEN /\ conn' = [conn EXCEPT ![c] =
                          Closed([@ EXCEPT !.state = st], "done")]
            /\ wire' = [wire EXCEPT ![c] = <<>>]
       ELSE /\ conn' = [conn EXCEPT ![c] =
                          [@ EXCEPT !.state = st, !.read_buffer = r.rest]]
            /\ UNCHANGED wire

\* the effect of read_packet returning r and of the handler's writes ws, of
\* which write number f fails (0: none); the handler asks for the connection
\* state st and returns Ok(go_on)
Handled(c, r, st, ws, f, go_on) ==
    /\ rcv' = [rcv EXCEPT ![c] = Append(@, r.pkt)]
    /\ sent' = [sent EXCEPT ![c] = @ \o Written(ws, f)]
    /\ IF f # 0
       THEN /\ conn' = [conn EXCEPT ![c] =
                          Closed([@ EXCEPT !.state = st], "Io")]
            /\ wire' = [wire EXCEPT ![c] = <<>>]
       ELSE IF ~go_on
       THEN /\ conn' = [conn EXCEPT ![c] =
                          Closed([@ EXCEPT !.state = st], "done")]
            /\ wire' = [wire EXCEPT ![c] = <<>>]
       ELSE /\ conn' = [conn EXCEPT ![c] =
                          [@ EXCEPT !.state = st, !.read_buffer = r.rest]]
            /\ UNCHANGED wire

\* the accept loop takes a connection and spawns its task
Accept(c, segments) ==
    /\ conn[c].status = "none"
    /\ conn' = [conn EXCEPT ![c] = NewConnection]
    /\ wire' = [wire EXCEPT ![c] = segments]
    /\ UNCHANGED <<sent, rcv, entities, entity_counter, chunks, sessions>>
    /\ UNCHANGED <<codecVars, apiVars>>

\* read_packet: no frame in the buffer, read_buf returns n > 0 bytes
RecvBytes(c) ==
    /\ conn[c].status = "open"
    /\ Cur(c).kind = "none"
    /\ wire[c] # <<>>
    /\ conn' = [conn EXCEPT ![c].read_buffer = @ \o Head(wire[c])]
    /\ wire' = [wire EXCEPT ![c] = Tail(@)]
    /\ UNCHANGED <<sent, rcv, entities, entity_counter, chunks, sessions>>
    /\ UNCHANGED <<codecVars, apiVars>>

\* read_packet: read_buf returns 0; Ok(None) on an empty buffer, else Err
RecvEof(c) ==
    /\ conn[c].status = "open"
    /\ Cur(c).kind = "none"
    /\ wire[c] = <<>>
    /\ conn' = [conn EXCEPT ![c] =
                  Closed(@, IF conn[c].read_buffer = <<>> THEN "eof" ELSE "InvalidPacket")]
    /\ UNCHANGED <<wire, sent, rcv, entities, entity_counter, chunks, sessions>>
    /\ UNCHANGED <<codecVars, apiVars>>

\* read_packet: read_buf returns an I/O error
RecvError(c) ==
    /\ conn[c].status = "open"
    /\ Cur(c).kind = "none"
    /\ conn' = [conn EXCEPT ![c] = Closed(@, "Io")]
    /\ wire' = [wire EXCEPT ![c] = <<>>]
    /\ UNCHANGED <<sent, rcv, entities, entity_counter, chunks, sessions>>
    /\ UNCHANGED <<codecVars, apiVars>>

\* read_packet: PacketFrame::decode or ServerBoundPacket::decode fails; the
\* error (or the panic) ends handle_connection
ReadFail(c) ==
    /\ conn[c].status = "open"
    /\ \E r \in {CurPkt(c)} :
          /\ r.kind \in {"err", "panic"}
          /\ conn' = [conn EXCEPT ![c] =
                        Closed(@, IF r.kind = "panic" THEN "panic" ELSE r.err)]
    /\ wire' = [wire EXCEPT ![c] = <<>>]
    /\ UNCHANGED <<sent, rcv, entities, entity_counter, chunks, sessions>>
    /\ UNCHANGED <<codecVars, apiVars>>

\* a Handshake arm that takes every next_state other than 1 for a login
HandleHandshake_ElseLogin(c) ==
    /\ \E r \in {CurPkt(c)} :
          /\ Returns(c, r, {"Handshake"})
          /\ Handled(c, r,
                     IF r.pkt.next_state = 1 THEN "Status" ELSE "Login",
                     <<>>, 0, TRUE)
    /\ UNCHANGED <<entities, entity_counter, chunks, sessions>>
    /\ UNCHANGED <<codecVars, apiVars>>

\* handle_packet, Handshake
HandleHandshake(c) ==
    /\ \E r \in {CurPkt(c)} :
          /\ Returns(c, r, {"Handshake"})
          /\ Handled(c, r,
                     IF r.pkt.next_state = 1 THEN "Status"
                     ELSE IF r.pkt.next_state = 2 THEN "Login"
                     ELSE conn[c].state,
                     <<>>, 0, TRUE)
    /\ UNCHANGED <<entities, entity_counter, chunks, sessions>>
    /\ UNCHANGED <<codecVars, apiVars>>

\* handle_packet, StatusRequest
HandleStatusRequest(c) ==
    /\ \E r \in {CurPkt(c)} :
          /\ Returns(c, r, {"StatusRequest"})
          /\ \E f \in FailPoints(1) :
                Handled(c, r, conn[c].state, <<StatusResponsePacket>>, f, TRUE)
    /\ UNCHANGED <<entities, entity_counter, chunks, sessions>>
    /\ UNCHANGED <<codecVars, apiVars>>

\* a StatusPing arm that falls through to Ok(true)
HandleStatusPing_KeepsOpen(c) ==
    /\ \E r \in {CurPkt(c)} :
          /\ Returns(c, r, {"StatusPing"})
          /\ \E f \in FailPoints(1) :
                Handled(c, r, conn[c].state,
                        <<[type |-> "StatusPong", payload |-> r.pkt.payload]>>, f, TRUE)
    /\ UNCHANGED <<entities, entity_counter, chunks, sessions>>
    /\ UNCHANGED <<codecVars, apiVars>>

\* handle_packet, StatusPing
HandleStatusPing(c) ==
    /\ \E r \in {CurPkt(c)} :
          /\ Returns(c, r, {"StatusPing"})
          /\ \E f \in FailPoints(1) :
                Handled(c, r, conn[c].state,
                        <<[type |-> "StatusPong", payload |-> r.pkt.payload]>>, f, FALSE)
    /\ UNCHANGED <<entities, entity_counter, chunks, sessions>>
    /\ UNCHANGED <<codecVars, apiVars>>

\* `uuid.unwrap_or_else(|| Uuid::new_v4())`: the client's UUID, or a random
\* one that no entity carries yet
PlayerUuids(uuid) ==
    IF uuid # <<>>
    THEN {uuid[1]}
    ELSE {u \in RandomUuids : \A k \in 1..Len(entities) : entities[k].EntityUuid # u}

\* the LoginStart arm, for the player uuid chosen and with write number f
\* failing: LoginSuccess, set_state(Play), spawn_player, sessions.insert,
\* JoinGame, PlayerPositionAndLook, send_spawn_chunks
LoginStartArm(c, r, player_uuid, f, sp) ==
    /\ Handled(c, r, IF f = 1 THEN conn[c].state ELSE "Play",
               LoginWrites(player_uuid, r.pkt.name), f, TRUE)
    /\ IF f = 1
       THEN UNCHANGED <<entities, entity_counter, sessions>>
       ELSE /\ entities' = sp.entities
            /\ entity_counter' = sp.counter
            /\ sessions' = SessionInsert(sessions, player_uuid,
                             [uuid |-> player_uuid, username |-> r.pkt.name,
                              world_id |-> "world", entity |-> sp.entity])
    /\ chunks' = SpawnChunks(chunks,
                            IF f = 0 THEN Len(SpawnChunkOrder)
                            ELSE IF f >= 4 THEN f - 3 ELSE 0)

\* handle_packet, LoginStart
HandleLoginStart(c) ==
    /\ \E r \in {CurPkt(c)} :
          /\ Returns(c, r, {"LoginStart"})
          /\ \E player_uuid \in PlayerUuids(r.pkt.uuid) :
             \E f \in FailPoints(Len(SpawnChunkOrder) + 3) :
                LoginStartArm(c, r, player_uuid, f,
                              spawn_player(entities, entity_counter, r.pkt.name,
                                           player_uuid))
    /\ UNCHANGED <<codecVars, apiVars>>

\* handle_packet, KeepAlive
HandleKeepAlive(c) ==
    /\ \E r \in {CurPkt(c)} :
          /\ Returns(c, r, {"KeepAlive"})
          /\ \E f \in FailPoints(1) :
                Handled(c, r, conn[c].state,
                        <<[type |-> "KeepAlive", id |-> r.pkt.id]>>, f, TRUE)
    /\ UNCHANGED <<entities, entity_counter, chunks, sessions>>
    /\ UNCHANGED <<codecVars, apiVars>>

\* handle_packet, the arms that write nothing and change nothing
HandleOther(c) ==
    /\ \E r \in {CurPkt(c)} :
          /\ Returns(c, r, {"PlayerPosition", "PlayerRotation",
                            "PlayerPositionAndRotation", "ChatMessage",
                            "PlayerDigging", "PlayerBlockPlacement",
                            "LoginEncryptionResponse", "LoginPluginResponse",
                            "PluginMessage"})
          /\ Handled(c, r, conn[c].state, <<>>, 0, TRUE)
    /\ UNCHANGED <<entities, entity_counter, chunks, sessions>>
    /\ UNCHANGED <<codecVars, apiVars>>

----------------------------------------------------------------------------
(* The world and the chunks called directly, on inputs drawn from bounded sets *)

\* block positions: the grass layer of chunk (0, 0) and the layer above it,
\* the top layer of chunk (-1, -2), the bedrock of chunk (1, 0), and a
\* position above and one below the range of y
WorldPositions ==
    { <<0, 3, 0>>, <<0, 4, 0>>, <<-1, 383, -17>>, <<16, 0, 15>>,
      <<0, 384, 0>>, <<-16, -1, 0>> }

BlockIds == {0, 65535}

\* the heights given to generate_flat
FlatHeights == {1, 2, 4, 17}

\* positions inside one chunk: the grass layer and the layer above it, a
\* block of the second section and a block of the top layer
ChunkPositions == { <<0, 3, 0>>, <<0, 4, 0>>, <<3, 16, 4>>, <<15, 383, 1>> }

\* the record of a call, with the count of the set_block calls made so far
Call(op, args, value, locks) ==
    [op |-> op, args |-> args, value |-> value, locks |-> locks,
     writes |-> wop.writes + (IF op = "set_block" THEN 1 ELSE 0)]

\* World::get_or_generate_chunk(x, z)
GetOrGenerateChunk(x, z) ==
    /\ chunks' = get_or_generate_chunk(chunks, x, z)
    /\ wop' = Call("get_or_generate_chunk", <<x, z>>, 0,
                   IF <<x, z>> \in DOMAIN chunks
                   THEN <<"chunks.read">>
                   ELSE <<"chunks.read", "chunks.write">>)
    /\ UNCHANGED <<conn, wire, sent, rcv, entities, entity_counter, sessions, gen, spawn, tickVars, concVars>>
    /\ UNCHANGED codecVars

\* World::get_block(x, y, z)
GetBlock(x, y, z) ==
    /\ wop' = Call("get_block", <<x, y, z>>, World_get_block(chunks, x, y, z),
                   <<"chunks.read">>)
    /\ UNCHANGED <<conn, wire, sent, rcv, entities, entity_counter, chunks, sessions, gen, spawn, tickVars, concVars>>
    /\ UNCHANGED codecVars

\* World::set_block(x, y, z, block_id); on a chunk that is absent the write
\* lock is taken again by generate_chunk and by set_chunk
SetBlock(x, y, z, block_id) ==
    /\ wop.writes < MaxWrites
    /\ chunks' = World_set_block(chunks, x, y, z, block_id)
    /\ wop' = Call("set_block", <<x, y, z, block_id>>, 0,
                   IF <<Sar32(x, 4), Sar32(z, 4)>> \in DOMAIN chunks
                   THEN <<"chunks.write">>
                   ELSE <<"chunks.write", "chunks.write", "chunks.write">>)
    /\ UNCHANGED <<conn, wire, sent, rcv, entities, entity_counter, sessions, gen, spawn, tickVars, concVars>>
    /\ UNCHANGED codecVars

IdleGen ==
    [pc |-> "idle", height |-> 0, k |-> 0, chunk |-> Chunk_new(<<0, 0>>),
     writes |-> 0, bytes |-> <<>>]

\* generate_flat(height) is called on a new chunk
GenerateFlatStart(height) ==
    /\ gen.pc = "idle"
    /\ gen' = [gen EXCEPT !.pc = "loop", !.height = height]
    /\ UNCHANGED <<serverVars, wop, spawn, tickVars, concVars>>
    /\ UNCHANGED codecVars

\* one pass through the body of the loops of generate_flat: column number k,
\* x running in the outer loop and z in the inner loop
GenerateFlatColumn ==
    /\ gen.pc = "loop"
    /\ gen' = [gen EXCEPT
                 !.chunk = FlatColumn(@, gen.k \div CHUNK_WIDTH, gen.k % CHUNK_WIDTH,
                                      gen.height),
                 !.k = @ + 1,
                 !.pc = IF gen.k + 1 = CHUNK_WIDTH * CHUNK_WIDTH THEN "done" ELSE "loop"]
    /\ UNCHANGED <<serverVars, wop, spawn, tickVars, concVars>>
    /\ UNCHANGED codecVars

\* Chunk::set_block(x, y, z, block_id) on the generated chunk
ChunkSetBlock(x, y, z, block_id) ==
    /\ gen.pc \in {"done", "encoded"}
    /\ gen.writes < MaxChunkWrites
    /\ gen' = [gen EXCEPT !.chunk = Chunk_set_block(@, x, y, z, block_id),
                          !.writes = @ + 1, !.pc = "done", !.bytes = <<>>]
    /\ UNCHANGED <<serverVars, wop, spawn, tickVars, concVars>>
    /\ UNCHANGED codecVars

\* Chunk::encode on the generated chunk
ChunkEncode ==
    /\ gen.pc = "done"
    /\ gen' = [gen EXCEPT !.pc = "encoded", !.bytes = Chunk_encode(gen.chunk)]
    /\ UNCHANGED <<serverVars, wop, spawn, tickVars, concVars>>
    /\ UNCHANGED codecVars

----------------------------------------------------------------------------
(* World::spawn_player called by several tasks, one await point at a time *)

\* the connection tasks that call spawn_player
Tasks == {"t1", "t2", "t3"}

NoSpawn ==
    [pc |-> [t \in Tasks |-> "idle"],
     entity_id |-> [t \in Tasks |-> 0],
     uuid |-> [t \in Tasks |-> <<>>],
     counter_lock |-> "free",
     ecs_lock |-> "free",
     calls |-> 0]

\* a task calls spawn_player(username, uuid) and waits for the write lock of
\* the counter
SpawnCall(t, uuid) ==
    /\ spawn.pc[t] = "idle"
    /\ spawn.calls < MaxSpawns
    /\ spawn' = [spawn EXCEPT !.pc[t] = "counter.write", !.uuid[t] = uuid,
                              !.calls = @ + 1]
    /\ UNCHANGED <<serverVars, wop, gen, tickVars, concVars>>
    /\ UNCHANGED codecVars

\* the counter handed out without exclusion, as a read lock would be
SpawnAcquireCounter_Shared(t) ==
    /\ spawn.pc[t] = "counter.write"
    /\ spawn' = [spawn EXCEPT !.pc[t] = "read", !.counter_lock = t]
    /\ UNCHANGED <<serverVars, wop, gen, tickVars, concVars>>
    /\ UNCHANGED codecVars

\* `let mut counter = self.entity_counter.write().await` returns
SpawnAcquireCounter(t) ==
    /\ spawn.pc[t] = "counter.write"
    /\ spawn.counter_lock = "free"
    /\ spawn' = [spawn EXCEPT !.pc[t] = "read", !.counter_lock = t]
    /\ UNCHANGED <<serverVars, wop, gen, tickVars, concVars>>
    /\ UNCHANGED codecVars

\* `let entity_id = *counter`
SpawnReadCounter(t) ==
    /\ spawn.pc[t] = "read"
    /\ spawn' = [spawn EXCEPT !.pc[t] = "increment", !.entity_id[t] = entity_counter]
    /\ UNCHANGED <<serverVars, wop, gen, tickVars, concVars>>
    /\ UNCHANGED codecVars

\* `*counter += 1`
SpawnIncrement(t) ==
    /\ spawn.pc[t] = "increment"
    /\ entity_counter' = entity_counter + 1
    /\ spawn' = [spawn EXCEPT !.pc[t] = "ecs.write"]
    /\ UNCHANGED <<conn, wire, sent, rcv, entities, chunks, sessions, wop, gen, tickVars, concVars>>
    /\ UNCHANGED codecVars

\* `let mut ecs = self.ecs.write().await` returns
SpawnAcquireEcs(t) ==
    /\ spawn.pc[t] = "ecs.write"
    /\ spawn.ecs_lock = "free"
    /\ spawn' = [spawn EXCEPT !.pc[t] = "spawn", !.ecs_lock = t]
    /\ UNCHANGED <<serverVars, wop, gen, tickVars, concVars>>
    /\ UNCHANGED codecVars

\* `ecs.world.spawn(..)` and the return, which drops both guards
SpawnEntity(t) ==
    /\ spawn.pc[t] = "spawn"
    /\ entities' = spawn_player(entities, spawn.entity_id[t], <<97>>, spawn.uuid[t]).entities
    /\ spawn' = [spawn EXCEPT !.pc[t] = "idle", !.ecs_lock = "free",
                              !.counter_lock = "free"]
    /\ UNCHANGED <<conn, wire, sent, rcv, entity_counter, chunks, sessions, wop, gen, tickVars, concVars>>
    /\ UNCHANGED codecVars

\* another call on the world takes the lock of the entity store
\* (get_player_position, set_player_position, ..)
EcsAcquire ==
    /\ spawn.ecs_lock = "free"
    /\ spawn' = [spawn EXCEPT !.ecs_lock = "other"]
    /\ UNCHANGED <<serverVars, wop, gen, tickVars, concVars>>
    /\ UNCHANGED codecVars

\* .. and returns
EcsRelease ==
    /\ spawn.ecs_lock = "other"
    /\ spawn' = [spawn EXCEPT !.ecs_lock = "free"]
    /\ UNCHANGED <<serverVars, wop, gen, tickVars, concVars>>
    /\ UNCHANGED codecVars

----------------------------------------------------------------------------
(* sandbox/wasm_runtime.rs and sandbox/mod.rs *)

\* `store.set_fuel(1_000_000_000)` in WasmRuntime::new
FuelBudget == 1000000000

\* the world ids that the callers use
WorldIds == {"w1", "w2", "w3"}

\* an export of a module: the fuel it burns when it runs to its end, and
\* whether it ends in a trap
Export(cost, traps) == [kind |-> "func", cost |-> cost, traps |-> traps]
NoExport == [kind |-> "absent"]

\* the modules loaded: one whose hooks are cheap, one whose tick never ends
\* within the budget, one whose tick traps, and one without a tick export
Modules ==
    { [tick |-> Export(250000000, FALSE), on_player_join |-> Export(250000000, FALSE)],
      [tick |-> Export(2000000000, FALSE), on_player_join |-> Export(250000000, FALSE)],
      [tick |-> Export(500000000, TRUE), on_player_join |-> NoExport],
      [tick |-> NoExport, on_player_join |-> Export(250000000, FALSE)] }

\* WasmRuntime::new followed by load_module of a module without start function
WasmRuntime_new(world_id, module) ==
    [world_id |-> world_id, fuel |-> FuelBudget, instance |-> module]

\* WasmRuntime::call_function: the runtime afterwards, the result and the
\* fuel burnt; wasmtime ends a call that needs more fuel than the store holds
\* with a trap and leaves the store without fuel
call_function(rt, name) ==
    LET func == rt.instance[name]
    IN  IF func.kind = "absent"
        THEN [rt |-> rt, result |-> "NotFound", consumed |-> 0]
        ELSE IF func.cost > rt.fuel
        THEN [rt |-> [rt EXCEPT !.fuel = 0], result |-> "OutOfFuel", consumed |-> rt.fuel]
        ELSE [rt |-> [rt EXCEPT !.fuel = @ - func.cost],
              result |-> IF func.traps THEN "Trap" ELSE "Ok",
              consumed |-> func.cost]

\* HashMap::new
NoSandboxes == [w \in {} |-> 0]

\* nothing called yet
NoHookCall ==
    [world_id |-> "", name |-> "", fuel_before |-> 0, consumed |-> 0, result |-> "",
     exhausted_before |-> FALSE]

\* the sandbox tick driver before its first tick; `exhausted` holds the
\* instances on which a call has run out of fuel
IdleSandboxDriver ==
    [pc |-> "sleep", todo |-> {}, ticked |-> {}, errors |-> {}, returned |-> "",
     exhausted |-> {}, last |-> NoHookCall]

\* the record of a hook call on the instance of world_id
HookCall(world_id, name, r) ==
    [world_id |-> world_id, name |-> name, fuel_before |-> sandboxes[world_id].fuel,
     consumed |-> r.consumed, result |-> r.result,
     exhausted_before |-> world_id \in sdrv.exhausted]

\* the instances on which a call has run out of fuel, after a call
Exhausted(world_id, r) ==
    IF r.result = "OutOfFuel" THEN sdrv.exhausted \cup {world_id} ELSE sdrv.exhausted

\* SandboxManager::create_sandbox: a new runtime under world_id, in place of
\* the one registered before; the write lock waits for tick_all to return
CreateSandbox(world_id, module) ==
    /\ sdrv.pc = "sleep"
    /\ sandboxes' = (world_id :> WasmRuntime_new(world_id, module)) @@ sandboxes
    /\ sdrv' = [sdrv EXCEPT !.exhausted = @ \ {world_id}]
    /\ UNCHANGED <<serverVars, wop, gen, spawn, worlds, wdrv, concVars>>
    /\ UNCHANGED codecVars

\* get_sandbox followed by WasmRuntime::on_player_join / on_block_break
CallHook(world_id, name) ==
    /\ world_id \in DOMAIN sandboxes
    /\ \E r \in {call_function(sandboxes[world_id], name)} :
          /\ sandboxes' = [sandboxes EXCEPT ![world_id] = r.rt]
          /\ sdrv' = [sdrv EXCEPT !.last = HookCall(world_id, name, r),
                                  !.exhausted = Exhausted(world_id, r)]
    /\ UNCHANGED <<serverVars, wop, gen, spawn, worlds, wdrv, concVars>>
    /\ UNCHANGED codecVars

\* main: `ticker.tick().await` returns and tick_all takes the read lock
SandboxDriverFire ==
    /\ sdrv.pc = "sleep"
    /\ sdrv' = [sdrv EXCEPT !.pc = "iter", !.todo = DOMAIN sandboxes, !.ticked = {},
                            !.errors = {}, !.returned = ""]
    /\ UNCHANGED <<serverVars, wop, gen, spawn, worlds, sandboxes, wdrv, concVars>>
    /\ UNCHANGED codecVars

\* tick_all where the first error ends the loop and is returned (`?`)
SandboxTickOne_Propagates(world_id) ==
    /\ sdrv.pc = "iter"
    /\ world_id \in sdrv.todo
    /\ \E r \in {call_function(sandboxes[world_id], "tick")} :
          /\ sandboxes' = [sandboxes EXCEPT ![world_id] = r.rt]
          /\ sdrv' = [sdrv EXCEPT
                        !.todo = IF r.result = "Ok" THEN @ \ {world_id} ELSE {},
                        !.ticked = @ \cup {world_id},
                        !.pc = IF r.result = "Ok" THEN "iter" ELSE "sleep",
                        !.returned = IF r.result = "Ok" THEN "" ELSE "Err",
                        !.last = HookCall(world_id, "tick", r),
                        !.exhausted = Exhausted(world_id, r)]
    /\ UNCHANGED <<serverVars, wop, gen, spawn, worlds, wdrv, concVars>>
    /\ UNCHANGED codecVars

\* tick_all: one pass through the loop body, `runtime.tick().await` on the
\* next sandbox of the map and the error logged
SandboxTickOne(world_id) ==
    /\ sdrv.pc = "iter"
    /\ world_id \in sdrv.todo
    /\ \E r \in {call_function(sandboxes[world_id], "tick")} :
          /\ sandboxes' = [sandboxes EXCEPT ![world_id] = r.rt]
          /\ sdrv' = [sdrv EXCEPT
                        !.todo = @ \ {world_id},
                        !.ticked = @ \cup {world_id},
                        !.errors = IF r.result = "Ok" THEN @ ELSE @ \cup {world_id},
                        !.last = HookCall(world_id, "tick", r),
                        !.exhausted = Exhausted(world_id, r)]
    /\ UNCHANGED <<serverVars, wop, gen, spawn, worlds, wdrv, concVars>>
    /\ UNCHANGED codecVars

\* tick_all returns Ok(()) after the loop, and the driver goes back to its
\* ticker
SandboxTickAllReturn ==
    /\ sdrv.pc = "iter"
    /\ sdrv.todo = {}
    /\ sdrv' = [sdrv EXCEPT !.pc = "sleep", !.returned = "Ok"]
    /\ UNCHANGED <<serverVars, wop, gen, spawn, worlds, sandboxes, wdrv, concVars>>
    /\ UNCHANGED codecVars

----------------------------------------------------------------------------
(* world/manager.rs: WorldManager, and the world tick driver of main *)

\* `interval(Duration::from_millis(50))` in main
TickPeriod == 50

\* the step of the clock, in ms: half a period
Quantum == TickPeriod \div 2

\* nominal load: the driver starts an iteration less than one period after
\* its ticker is due, which on this clock is at most one step late
MaxLate == Quantum

\* the window of the tick guarantee, in ms: four periods; a tick more than a
\* window ago has age Window + Quantum
Window == 4 * TickPeriod

\* World::tick
World_tick(world_id) == "Ok"

\* the world tick driver when main spawns it: the first tick of an interval
\* completes at once. `next` is the time until the ticker is due (negative:
\* overdue), `reg` the time since each world was registered, `ages` the times
\* since its last three ticks, `removed` the ids of the worlds removed
IdleWorldDriver ==
    [pc |-> "sleep", next |-> 0, todo |-> {}, ticked |-> {}, returned |-> "",
     reg |-> [w \in {} |-> 0], ages |-> [w \in {} |-> <<>>], removed |-> {}]

Older == Window + Quantum
Aged(a) == IF a + Quantum > Older THEN Older ELSE a + Quantum

\* WorldManager::create_world under a new id (create_world of the API draws
\* a new uuid); the write lock waits for tick_all to return
CreateWorld(id) ==
    /\ wdrv.pc = "sleep"
    /\ id \notin worlds \cup wdrv.removed
    /\ worlds' = worlds \cup {id}
    /\ wdrv' = [wdrv EXCEPT !.reg = (id :> 0) @@ @,
                            !.ages = (id :> <<Older, Older, Older>>) @@ @]
    /\ UNCHANGED <<serverVars, wop, gen, spawn, sandboxes, sdrv, concVars>>
    /\ UNCHANGED codecVars

\* delete_world of the API: WorldManager::remove_world, and nothing else
DeleteWorld(id) ==
    /\ wdrv.pc = "sleep"
    /\ id \in worlds
    /\ worlds' = worlds \ {id}
    /\ wdrv' = [wdrv EXCEPT !.reg = [w \in DOMAIN @ \ {id} |-> @[w]],
                            !.ages = [w \in DOMAIN @ \ {id} |-> @[w]],
                            !.removed = @ \cup {id}]
    /\ UNCHANGED <<serverVars, wop, gen, spawn, sandboxes, sdrv, concVars>>
    /\ UNCHANGED codecVars

\* time passes by one step; under nominal load it does not pass while the
\* driver is more than MaxLate behind its ticker or inside tick_all
Advance ==
    /\ wdrv.pc = "sleep"
    /\ wdrv.next - Quantum >= 0 - MaxLate
    /\ wdrv' = [wdrv EXCEPT !.next = @ - Quantum,
                            !.reg = [w \in DOMAIN @ |-> Aged(@[w])],
                            !.ages = [w \in DOMAIN @ |->
                                        <<Aged(@[w][1]), Aged(@[w][2]), Aged(@[w][3])>>]]
    /\ UNCHANGED <<serverVars, wop, gen, spawn, worlds, sandboxes, sdrv, concVars>>
    /\ UNCHANGED codecVars

\* main: `ticker.tick().await` returns, the ticker is due again one period
\* after it was due, and tick_all takes the read lock
WorldDriverFire ==
    /\ wdrv.pc = "sleep"
    /\ wdrv.next <= 0
    /\ wdrv' = [wdrv EXCEPT !.pc = "iter", !.next = @ + TickPeriod, !.todo = worlds,
                            !.ticked = {}, !.returned = ""]
    /\ UNCHANGED <<serverVars, wop, gen, spawn, worlds, sandboxes, sdrv, concVars>>
    /\ UNCHANGED codecVars

\* tick_all that returns after the first world
WorldTickOne_ReturnsEarly(id) ==
    /\ wdrv.pc = "iter"
    /\ id \in wdrv.todo
    /\ wdrv' = [wdrv EXCEPT !.todo = {}, !.ticked = @ \cup {id},
                            !.ages[id] = <<0, @[1], @[2]>>]
    /\ UNCHANGED <<serverVars, wop, gen, spawn, worlds, sandboxes, sdrv, concVars>>
    /\ UNCHANGED codecVars

\* tick_all: one pass through the loop body, `world.tick().await?` on the
\* next world of the map; an error ends the loop and is returned to main,
\* which logs it
WorldTickOne(id) ==
    /\ wdrv.pc = "iter"
    /\ id \in wdrv.todo
    /\ \E r \in {World_tick(id)} :
          wdrv' = [wdrv EXCEPT !.todo = IF r = "Ok" THEN @ \ {id} ELSE {},
                               !.ticked = @ \cup {id},
                               !.ages[id] = <<0, @[1], @[2]>>,
                               !.pc = IF r = "Ok" THEN "iter" ELSE "sleep",
                               !.returned = IF r = "Ok" THEN "" ELSE "Err"]
    /\ UNCHANGED <<serverVars, wop, gen, spawn, worlds, sandboxes, sdrv, concVars>>
    /\ UNCHANGED codecVars

\* tick_all returns Ok(()) after the loop, and the driver goes back to its
\* ticker
WorldTickAllReturn ==
    /\ wdrv.pc = "iter"
    /\ wdrv.todo = {}
    /\ wdrv' = [wdrv EXCEPT !.pc = "sleep", !.returned = "Ok"]
    /\ UNCHANGED <<serverVars, wop, gen, spawn, worlds, sandboxes, sdrv, concVars>>
    /\ UNCHANGED codecVars

----------------------------------------------------------------------------
(* world/manager.rs and server/mod.rs: the operations of World and the     *)
(* LoginStart arm run by concurrent tasks, one await point at a time       *)

\* the tasks that call into the world
Workers == {"t1", "t2"}

\* the tokio RwLocks: World::chunks, World::ecs, World::entity_counter and
\* MinecraftServer::sessions; the tokio Mutexes of a WasmRuntime: store and
\* instance
LockNames == {"chunks", "ecs", "counter", "sessions", "store", "instance"}

\* an RwLock that nobody holds: `w` is the writer, `r` the readers
FreeLock == [w |-> "", r |-> {}]

\* a task: where it is, the call it runs, the chunk it has in hand, the
\* value returned, the loop index of send_spawn_chunks, and for a set_block
\* the tasks whose set_block ran while it ran
IdleTask ==
    [pc |-> "idle", op |-> "", args |-> <<>>, local |-> <<>>, value |-> 0, k |-> 0,
     with |-> {}]

\* no call is running and no lock is held; `congested` are the tasks whose
\* socket is not being drained
IdleTasks ==
    [locks |-> [l \in LockNames |-> FreeLock],
     task |-> [t \in Workers |-> IdleTask],
     congested |-> {}]

\* RwLock::read and RwLock::write return when the lock allows it
CanRead(l) == ct.locks[l].w = ""
CanWrite(l) == ct.locks[l].w = "" /\ ct.locks[l].r = {}

AcquireRead(locks, l, t) == [locks EXCEPT ![l].r = @ \cup {t}]
AcquireWrite(locks, l, t) == [locks EXCEPT ![l].w = t]

\* the guard of a lock is dropped
Release(locks, l, t) ==
    [locks EXCEPT ![l] = [w |-> IF @.w = t THEN "" ELSE @.w, r |-> @.r \ {t}]]

\* the locks that task t holds
Holds(t) == {l \in LockNames : ct.locks[l].w = t \/ t \in ct.locks[l].r}

\* the key of the chunk that the call of task t works on
TaskKey(t) ==
    LET a == ct.task[t].args
    IN  IF ct.task[t].op \in {"set_block", "get_block"}
        THEN <<Sar32(a[1], 4), Sar32(a[3], 4)>>
        ELSE IF ct.task[t].op = "login"
        THEN SpawnChunkOrder[ct.task[t].k]
        ELSE <<a[1], a[2]>>

\* the first await point of each operation
FirstPc(op) ==
    CASE op = "set_block" -> "set_block.write"
      [] op = "get_block" -> "get_chunk.read"
      [] op = "get_or_generate_chunk" -> "get_chunk.read"
      [] op = "spawn_player" -> "spawn_player.counter"
      [] op = "get_all_players" -> "get_all_players.read"
      [] op = "login" -> "login.success"
      [] op = "load_module" -> "load_module.store"
      [] op = "call_function" -> "call_function.store"

\* a task calls an operation
TaskCall(t, op, args) ==
    /\ ct.task[t].pc \in {"idle", "done"}
    /\ LET running == {u \in Workers \ {t} : /\ ct.task[u].pc \notin {"idle", "done"}
                                             /\ ct.task[u].op = "set_block"
                                             /\ op = "set_block"}
       IN  ct' = [ct EXCEPT !.task =
                    [u \in Workers |->
                       IF u = t
                       THEN [IdleTask EXCEPT !.pc = FirstPc(op), !.op = op, !.args = args,
                                             !.with = running]
                       ELSE IF u \in running THEN [@[u] EXCEPT !.with = @ \cup {t}]
                       ELSE @[u]]]
    /\ UNCHANGED <<serverVars, wop, gen, spawn, tickVars>>
    /\ UNCHANGED codecVars
    /\ UNCHANGED pm

\* set_block: `self.chunks.write().await`
SetBlockWrite(t) ==
    /\ ct.task[t].pc = "set_block.write"
    /\ CanWrite("chunks")
    /\ ct' = [ct EXCEPT !.locks = AcquireWrite(@, "chunks", t),
                        !.task[t].pc = "set_block.held"]
    /\ UNCHANGED <<serverVars, wop, gen, spawn, tickVars>>
    /\ UNCHANGED codecVars
    /\ UNCHANGED pm

\* set_block that goes on to generate the chunk with the write guard still
\* in hand
SetBlockApply_GuardKept(t) ==
    /\ ct.task[t].pc = "set_block.held"
    /\ LET a == ct.task[t].args
           key == TaskKey(t)
       IN  IF key \in DOMAIN chunks
           THEN /\ chunks' = IF a[2] >= 0 /\ a[2] < CHUNK_HEIGHT
                             THEN [chunks EXCEPT ![key] =
                                     Chunk_set_block(@, LocalCoord(a[1]), a[2],
                                                     LocalCoord(a[3]), a[4])]
                             ELSE chunks
                /\ ct' = [ct EXCEPT !.locks = Release(@, "chunks", t),
                                    !.task[t].pc = "done"]
           ELSE /\ chunks' = chunks
                /\ ct' = [ct EXCEPT !.task[t].pc = "set_chunk.write"]
    /\ UNCHANGED <<conn, wire, sent, rcv, entities, entity_counter, sessions>>
    /\ UNCHANGED <<wop, gen, spawn, tickVars>>
    /\ UNCHANGED codecVars
    /\ UNCHANGED pm

\* set_block under the write lock: the chunk is written in the map, or the
\* guard is dropped and the chunk is to be generated
SetBlockApply(t) ==
    /\ ct.task[t].pc = "set_block.held"
    /\ LET a == ct.task[t].args
           key == TaskKey(t)
       IN  IF key \in DOMAIN chunks
           THEN /\ chunks' = IF a[2] >= 0 /\ a[2] < CHUNK_HEIGHT
                             THEN [chunks EXCEPT ![key] =
                                     Chunk_set_block(@, LocalCoord(a[1]), a[2],
                                                     LocalCoord(a[3]), a[4])]
                             ELSE chunks
                /\ ct' = [ct EXCEPT !.locks = Release(@, "chunks", t),
                                    !.task[t].pc = "done"]
           ELSE /\ chunks' = chunks
                /\ ct' = [ct EXCEPT !.locks = Release(@, "chunks", t),
                                    !.task[t].pc = "set_chunk.write"]
    /\ UNCHANGED <<conn, wire, sent, rcv, entities, entity_counter, sessions>>
    /\ UNCHANGED <<wop, gen, spawn, tickVars>>
    /\ UNCHANGED codecVars
    /\ UNCHANGED pm

\* generate_chunk: the chunk is built and set_chunk waits for the write lock
GenerateChunkWrite(t) ==
    /\ ct.task[t].pc = "set_chunk.write"
    /\ CanWrite("chunks")
    /\ ct' = [ct EXCEPT !.locks = AcquireWrite(@, "chunks", t),
                        !.task[t].pc = "set_chunk.held"]
    /\ UNCHANGED <<serverVars, wop, gen, spawn, tickVars>>
    /\ UNCHANGED codecVars
    /\ UNCHANGED pm

\* where the call goes on when generate_chunk has returned
AfterGenerate(op) ==
    CASE op = "set_block" -> "set_block.set_chunk"
      [] op = "login" -> "login.chunk_data"
      [] OTHER -> "done"

\* generate_chunk: set_chunk inserts a clone of the new chunk, and the
\* caller has the chunk; set_block writes its block into it
GenerateChunkInsert(t) ==
    /\ ct.task[t].pc = "set_chunk.held"
    /\ LET a == ct.task[t].args
           key == TaskKey(t)
           chunk == generate_chunk(key[1], key[2])
           mine == IF ct.task[t].op = "set_block" /\ a[2] >= 0 /\ a[2] < CHUNK_HEIGHT
                   THEN Chunk_set_block(chunk, LocalCoord(a[1]), a[2], LocalCoord(a[3]),
                                        a[4])
                   ELSE chunk
       IN  /\ chunks' = set_chunk(chunks, chunk)
           /\ ct' = [ct EXCEPT !.locks = Release(@, "chunks", t),
                               !.task[t].local = <<mine>>,
                               !.task[t].pc = AfterGenerate(ct.task[t].op)]
    /\ UNCHANGED <<conn, wire, sent, rcv, entities, entity_counter, sessions>>
    /\ UNCHANGED <<wop, gen, spawn, tickVars>>
    /\ UNCHANGED codecVars
    /\ UNCHANGED pm

\* set_block, the chunk was absent: `self.set_chunk(chunk).await` waits for
\* the write lock
SetBlockSetChunkWrite(t) ==
    /\ ct.task[t].pc = "set_block.set_chunk"
    /\ CanWrite("chunks")
    /\ ct' = [ct EXCEPT !.locks = AcquireWrite(@, "chunks", t),
                        !.task[t].pc = "set_block.set_chunk.held"]
    /\ UNCHANGED <<serverVars, wop, gen, spawn, tickVars>>
    /\ UNCHANGED codecVars
    /\ UNCHANGED pm

\* set_block, the chunk was absent: set_chunk inserts the task's chunk
SetBlockSetChunk(t) ==
    /\ ct.task[t].pc = "set_block.set_chunk.held"
    /\ chunks' = set_chunk(chunks, ct.task[t].local[1])
    /\ ct' = [ct EXCEPT !.locks = Release(@, "chunks", t), !.task[t].pc = "done"]
    /\ UNCHANGED <<conn, wire, sent, rcv, entities, entity_counter, sessions>>
    /\ UNCHANGED <<wop, gen, spawn, tickVars>>
    /\ UNCHANGED codecVars
    /\ UNCHANGED pm

\* get_chunk: `self.chunks.read().await`
GetChunkRead(t) ==
    /\ ct.task[t].pc = "get_chunk.read"
    /\ CanRead("chunks")
    /\ ct' = [ct EXCEPT !.locks = AcquireRead(@, "chunks", t),
                        !.task[t].pc = "get_chunk.held"]
    /\ UNCHANGED <<serverVars, wop, gen, spawn, tickVars>>
    /\ UNCHANGED codecVars
    /\ UNCHANGED pm

\* where the call goes on when get_chunk has returned a chunk
AfterGetChunk(op) == IF op = "login" THEN "login.chunk_data" ELSE "done"

\* get_chunk returns a clone of the chunk, or None; get_block reads the
\* block, get_or_generate_chunk returns the chunk or goes on to generate it
GetChunk(t) ==
    /\ ct.task[t].pc = "get_chunk.held"
    /\ LET a == ct.task[t].args
           key == TaskKey(t)
       IN  ct' = [ct EXCEPT
                    !.locks = Release(@, "chunks", t),
                    !.task[t] =
                       IF ct.task[t].op = "get_block"
                       THEN [@ EXCEPT !.pc = "done",
                                      !.value = World_get_block(chunks, a[1], a[2], a[3])]
                       ELSE IF key \in DOMAIN chunks
                       THEN [@ EXCEPT !.pc = AfterGetChunk(ct.task[t].op),
                                      !.local = <<chunks[key]>>]
                       ELSE [@ EXCEPT !.pc = "set_chunk.write"]]
    /\ UNCHANGED <<serverVars, wop, gen, spawn, tickVars>>
    /\ UNCHANGED codecVars
    /\ UNCHANGED pm

\* spawn_player: `self.entity_counter.write().await`, then the id is taken
\* and the counter incremented
SpawnPlayerCounter(t) ==
    /\ ct.task[t].pc = "spawn_player.counter"
    /\ CanWrite("counter")
    /\ entity_counter' = entity_counter + 1
    /\ ct' = [ct EXCEPT !.locks = AcquireWrite(@, "counter", t),
                        !.task[t].value = entity_counter,
                        !.task[t].pc = "spawn_player.ecs"]
    /\ UNCHANGED <<conn, wire, sent, rcv, entities, chunks, sessions>>
    /\ UNCHANGED <<wop, gen, spawn, tickVars>>
    /\ UNCHANGED codecVars
    /\ UNCHANGED pm

\* spawn_player: `self.ecs.write().await`, with the counter still locked
SpawnPlayerEcs(t) ==
    /\ ct.task[t].pc = "spawn_player.ecs"
    /\ CanWrite("ecs")
    /\ ct' = [ct EXCEPT !.locks = AcquireWrite(@, "ecs", t),
                        !.task[t].pc = "spawn_player.held"]
    /\ UNCHANGED <<serverVars, wop, gen, spawn, tickVars>>
    /\ UNCHANGED codecVars
    /\ UNCHANGED pm

\* spawn_player: the entity is spawned and both guards are dropped
SpawnPlayerSpawn(t) ==
    /\ ct.task[t].pc = "spawn_player.held"
    /\ entities' = spawn_player(entities, ct.task[t].value, ct.task[t].args[1],
                                ct.task[t].args[2]).entities
    /\ ct' = [ct EXCEPT !.locks = Release(Release(@, "ecs", t), "counter", t),
                        !.task[t].pc = IF ct.task[t].op = "login" THEN "login.sessions"
                                       ELSE "done"]
    /\ UNCHANGED <<conn, wire, sent, rcv, entity_counter, chunks, sessions>>
    /\ UNCHANGED <<wop, gen, spawn, tickVars>>
    /\ UNCHANGED codecVars
    /\ UNCHANGED pm

\* get_all_players: `self.ecs.read().await`
GetAllPlayersRead(t) ==
    /\ ct.task[t].pc = "get_all_players.read"
    /\ CanRead("ecs")
    /\ ct' = [ct EXCEPT !.locks = AcquireRead(@, "ecs", t),
                        !.task[t].pc = "get_all_players.held"]
    /\ UNCHANGED <<serverVars, wop, gen, spawn, tickVars>>
    /\ UNCHANGED codecVars
    /\ UNCHANGED pm

\* get_all_players: the players are collected and the guard is dropped
GetAllPlayers(t) ==
    /\ ct.task[t].pc = "get_all_players.held"
    /\ ct' = [ct EXCEPT !.locks = Release(@, "ecs", t),
                        !.task[t].value = Len(entities),
                        !.task[t].pc = "done"]
    /\ UNCHANGED <<serverVars, wop, gen, spawn, tickVars>>
    /\ UNCHANGED codecVars
    /\ UNCHANGED pm

\* the socket of a task stops being drained, and is drained again
Congest(t) ==
    /\ t \notin ct.congested
    /\ ct' = [ct EXCEPT !.congested = @ \cup {t}]
    /\ UNCHANGED <<serverVars, wop, gen, spawn, tickVars>>
    /\ UNCHANGED codecVars
    /\ UNCHANGED pm

Drain(t) ==
    /\ t \in ct.congested
    /\ ct' = [ct EXCEPT !.congested = @ \ {t}]
    /\ UNCHANGED <<serverVars, wop, gen, spawn, tickVars>>
    /\ UNCHANGED codecVars
    /\ UNCHANGED pm

\* the LoginStart arm: write_packet(LoginSuccess) returns, set_state(Play),
\* and spawn_player is called
LoginSuccess(t) ==
    /\ ct.task[t].pc = "login.success"
    /\ t \notin ct.congested
    /\ ct' = [ct EXCEPT !.task[t].pc = "spawn_player.counter"]
    /\ UNCHANGED <<serverVars, wop, gen, spawn, tickVars>>
    /\ UNCHANGED codecVars
    /\ UNCHANGED pm

\* the LoginStart arm: `let mut sessions = self.sessions.write().await` and
\* the insert; the guard lives to the end of the arm
LoginSessions(t) ==
    /\ ct.task[t].pc = "login.sessions"
    /\ CanWrite("sessions")
    /\ sessions' = SessionInsert(sessions, ct.task[t].args[2],
                                 [uuid |-> ct.task[t].args[2],
                                  username |-> ct.task[t].args[1],
                                  world_id |-> "world", entity |-> Len(entities)])
    /\ ct' = [ct EXCEPT !.locks = AcquireWrite(@, "sessions", t),
                        !.task[t].pc = "login.join_game"]
    /\ UNCHANGED <<conn, wire, sent, rcv, entities, entity_counter, chunks>>
    /\ UNCHANGED <<wop, gen, spawn, tickVars>>
    /\ UNCHANGED codecVars
    /\ UNCHANGED pm

\* the LoginStart arm: write_packet(JoinGame) returns
LoginJoinGame(t) ==
    /\ ct.task[t].pc = "login.join_game"
    /\ t \notin ct.congested
    /\ ct' = [ct EXCEPT !.task[t].pc = "login.position"]
    /\ UNCHANGED <<serverVars, wop, gen, spawn, tickVars>>
    /\ UNCHANGED codecVars
    /\ UNCHANGED pm

\* the LoginStart arm: write_packet(PlayerPositionAndLook) returns and
\* send_spawn_chunks calls get_or_generate_chunk for its first chunk
LoginPosition(t) ==
    /\ ct.task[t].pc = "login.position"
    /\ t \notin ct.congested
    /\ ct' = [ct EXCEPT !.task[t].pc = "get_chunk.read", !.task[t].k = 1]
    /\ UNCHANGED <<serverVars, wop, gen, spawn, tickVars>>
    /\ UNCHANGED codecVars
    /\ UNCHANGED pm

\* send_spawn_chunks: write_packet(ChunkData) returns; the loop goes on with
\* the next chunk, or the arm ends and the guard of the session map is
\* dropped
LoginChunkData(t) ==
    /\ ct.task[t].pc = "login.chunk_data"
    /\ t \notin ct.congested
    /\ ct' = IF ct.task[t].k < Len(SpawnChunkOrder)
             THEN [ct EXCEPT !.task[t].pc = "get_chunk.read", !.task[t].k = @ + 1,
                             !.task[t].local = <<>>]
             ELSE [ct EXCEPT !.locks = Release(@, "sessions", t),
                             !.task[t].pc = "done", !.task[t].local = <<>>]
    /\ UNCHANGED <<serverVars, wop, gen, spawn, tickVars>>
    /\ UNCHANGED codecVars
    /\ UNCHANGED pm

----------------------------------------------------------------------------
(* sandbox/wasm_runtime.rs: load_module and call_function on one runtime,
   run by concurrent tasks, one await point at a time *)

\* the world whose runtime the tasks share
SharedRuntime == "w1"

\* load_module: `self.store.lock().await`; instantiate_async then runs with
\* the guard in hand
LoadModuleStore(t) ==
    /\ ct.task[t].pc = "load_module.store"
    /\ CanWrite("store")
    /\ ct' = [ct EXCEPT !.locks = AcquireWrite(@, "store", t),
                        !.task[t].pc = "load_module.instance"]
    /\ UNCHANGED <<serverVars, wop, gen, spawn, tickVars>>
    /\ UNCHANGED codecVars
    /\ UNCHANGED pm

\* load_module: `self.instance.lock().await`, the new instance is stored
\* and both guards are dropped
LoadModuleInstance(t) ==
    /\ ct.task[t].pc = "load_module.instance"
    /\ CanWrite("instance")
    /\ sandboxes' = [sandboxes EXCEPT ![SharedRuntime].instance = ct.task[t].args[1]]
    /\ ct' = [ct EXCEPT !.locks = Release(@, "store", t), !.task[t].pc = "done"]
    /\ UNCHANGED <<serverVars, wop, gen, spawn, worlds, wdrv, sdrv>>
    /\ UNCHANGED codecVars
    /\ UNCHANGED pm

\* call_function: `self.store.lock().await`
CallFunctionStore(t) ==
    /\ ct.task[t].pc = "call_function.store"
    /\ CanWrite("store")
    /\ ct' = [ct EXCEPT !.locks = AcquireWrite(@, "store", t),
                        !.task[t].pc = "call_function.instance"]
    /\ UNCHANGED <<serverVars, wop, gen, spawn, tickVars>>
    /\ UNCHANGED codecVars
    /\ UNCHANGED pm

\* call_function that looks the function up and lets go of both guards
\* before the guest runs
CallFunctionInstance_GuardsDropped(t) ==
    /\ ct.task[t].pc = "call_function.instance"
    /\ CanWrite("instance")
    /\ ct' = IF sandboxes[SharedRuntime].instance[ct.task[t].args[1]].kind = "absent"
             THEN [ct EXCEPT !.locks = Release(@, "store", t),
                             !.task[t].local = <<"NotFound">>,
                             !.task[t].pc = "done"]
             ELSE [ct EXCEPT !.locks = Release(@, "store", t),
                             !.task[t].pc = "call_function.call_async"]
    /\ UNCHANGED <<serverVars, wop, gen, spawn, tickVars>>
    /\ UNCHANGED codecVars
    /\ UNCHANGED pm

\* call_function: `self.instance.lock().await` and get_func; a function that
\* is not exported is an error and the guards are dropped, otherwise
\* call_async starts the guest with both guards in hand
CallFunctionInstance(t) ==
    /\ ct.task[t].pc = "call_function.instance"
    /\ CanWrite("instance")
    /\ ct' = IF sandboxes[SharedRuntime].instance[ct.task[t].args[1]].kind = "absent"
             THEN [ct EXCEPT !.locks = Release(@, "store", t),
                             !.task[t].local = <<"NotFound">>,
                             !.task[t].pc = "done"]
             ELSE [ct EXCEPT !.locks = AcquireWrite(@, "instance", t),
                             !.task[t].pc = "call_function.call_async"]
    /\ UNCHANGED <<serverVars, wop, gen, spawn, tickVars>>
    /\ UNCHANGED codecVars
    /\ UNCHANGED pm

\* call_function: call_async returns, with the fuel burnt, and the guards
\* are dropped
CallFunctionReturn(t) ==
    /\ ct.task[t].pc = "call_function.call_async"
    /\ \E r \in {call_function(sandboxes[SharedRuntime], ct.task[t].args[1])} :
          /\ sandboxes' = [sandboxes EXCEPT ![SharedRuntime] = r.rt]
          /\ ct' = [ct EXCEPT !.locks = Release(Release(@, "instance", t), "store", t),
                              !.task[t].local = <<r.result>>,
                              !.task[t].pc = "done"]
    /\ UNCHANGED <<serverVars, wop, gen, spawn, worlds, wdrv, sdrv>>
    /\ UNCHANGED codecVars
    /\ UNCHANGED pm

----------------------------------------------------------------------------
(* lua/plugin.rs and lua/engine.rs: Plugin and PluginManager *)

\* the names that plugins are loaded under
PluginNames == {"a", "b"}

\* the hooks whose boolean result means cancel
PluginHooks == {"on_player_chat", "on_block_break", "on_block_place"}

\* the global functions that the plugins are called through
PluginFunctions == PluginHooks \cup {"on_enable", "on_disable"}

\* a script, by what each of its global functions does when called: it
\* returns true ("true"), false ("false") or something that is no boolean
\* ("nil"), it raises an error ("error"), or the script does not define it
\* ("absent")
Script(hooks, lifecycle) ==
    [f \in PluginFunctions |-> IF f \in PluginHooks THEN hooks ELSE lifecycle]

\* the scripts loaded: one per outcome of the hooks, the last with different
\* hooks and without on_enable and on_disable
LuaScripts ==
    { Script("true", "nil"), Script("false", "nil"), Script("nil", "nil"),
      Script("error", "nil"), Script("absent", "nil"),
      [Script("false", "absent") EXCEPT !["on_player_chat"] = "true",
                                        !["on_block_place"] = "error"] }

\* LuaEngine::call_function: `globals.get(name)?` fails for a global that is
\* no function, `func.call(..)?` fails when the function raises
LuaEngine_call_function(script, name) ==
    IF script[name] \in {"absent", "error"} THEN "Err" ELSE script[name]

\* Plugin::new
Plugin_new(script) == [script |-> script, enabled |-> TRUE]

\* Plugin::enable: the plugin afterwards and whether the call returned Ok
Plugin_enable(plugin) ==
    IF ~plugin.enabled
    THEN IF LuaEngine_call_function(plugin.script, "on_enable") = "Err"
         THEN [plugin |-> plugin, ok |-> FALSE]
         ELSE [plugin |-> [plugin EXCEPT !.enabled = TRUE], ok |-> TRUE]
    ELSE [plugin |-> plugin, ok |-> TRUE]

\* Plugin::disable: the plugin afterwards and whether the call returned Ok
Plugin_disable(plugin) ==
    IF plugin.enabled
    THEN IF LuaEngine_call_function(plugin.script, "on_disable") = "Err"
         THEN [plugin |-> plugin, ok |-> FALSE]
         ELSE [plugin |-> [plugin EXCEPT !.enabled = FALSE], ok |-> TRUE]
    ELSE [plugin |-> plugin, ok |-> TRUE]

\* Plugin::on_player_chat that calls the hook of a disabled plugin too
Plugin_hook_IgnoresEnabled(plugin, hook) ==
    LET r == LuaEngine_call_function(plugin.script, hook)
    IN  [invoked |-> TRUE,
         result |-> IF r = "Err" THEN "Err" ELSE IF r = "true" THEN "true" ELSE "false"]

\* Plugin::on_player_chat, on_block_break, on_block_place: Ok(false) without
\* a call when the plugin is disabled, the error of the call, the boolean
\* that the hook returned first, or Ok(false)
Plugin_hook(plugin, hook) ==
    IF ~plugin.enabled
    THEN [invoked |-> FALSE, result |-> "false"]
    ELSE LET r == LuaEngine_call_function(plugin.script, hook)
         IN  [invoked |-> TRUE,
              result |-> IF r = "Err" THEN "Err"
                         ELSE IF r = "true" THEN "true" ELSE "false"]

RECURSIVE PluginManager_hook(_, _, _, _)
\* PluginManager::on_player_chat, on_block_break, on_block_place: the loop
\* over plugins.values() in the order of the map; `done` holds what the
\* passes so far have returned, called and logged
PluginManager_hook(plugins, order, hook, done) ==
    IF order = <<>> THEN done
    ELSE LET name == Head(order)
             r == Plugin_hook(plugins[name], hook)
             invoked == IF r.invoked THEN done.invoked \cup {name} ELSE done.invoked
         IN  IF r.result = "true"
             THEN [done EXCEPT !.returned = TRUE, !.invoked = invoked]
             ELSE PluginManager_hook(plugins, Tail(order), hook,
                     [done EXCEPT !.invoked = invoked,
                                  !.logged = IF r.result = "Err" THEN @ \cup {name} ELSE @])

\* HashMap::new
NoPluginMap == [n \in {} |-> 0]

\* no hook dispatched yet
NoDispatch == [hook |-> "", returned |-> FALSE, invoked |-> {}, logged |-> {}]

\* PluginManager::new
NoPlugins == [plugins |-> NoPluginMap, last |-> NoDispatch]

\* the orders in which a HashMap with these keys can be iterated
MapOrders(keys) ==
    {o \in [1..Cardinality(keys) -> keys] : \A i, j \in DOMAIN o : o[i] = o[j] => i = j}

\* PluginManager::load_plugin
LoadPlugin(name, script) ==
    /\ pm' = [pm EXCEPT !.plugins = (name :> Plugin_new(script)) @@ @]
    /\ UNCHANGED <<serverVars, wop, gen, spawn, tickVars, ct>>
    /\ UNCHANGED codecVars

\* PluginManager::unload_plugin: an error of disable is returned before the
\* plugin is removed
UnloadPlugin(name) ==
    /\ name \in DOMAIN pm.plugins
    /\ Plugin_disable(pm.plugins[name]).ok
    /\ pm' = [pm EXCEPT !.plugins = [n \in DOMAIN @ \ {name} |-> @[n]]]
    /\ UNCHANGED <<serverVars, wop, gen, spawn, tickVars, ct>>
    /\ UNCHANGED codecVars

\* PluginManager::enable_plugin
EnablePlugin(name) ==
    /\ name \in DOMAIN pm.plugins
    /\ pm' = [pm EXCEPT !.plugins[name] = Plugin_enable(@).plugin]
    /\ pm' # pm
    /\ UNCHANGED <<serverVars, wop, gen, spawn, tickVars, ct>>
    /\ UNCHANGED codecVars

\* PluginManager::disable_plugin
DisablePlugin(name) ==
    /\ name \in DOMAIN pm.plugins
    /\ pm' = [pm EXCEPT !.plugins[name] = Plugin_disable(@).plugin]
    /\ pm' # pm
    /\ UNCHANGED <<serverVars, wop, gen, spawn, tickVars, ct>>
    /\ UNCHANGED codecVars

\* a hook is dispatched to the plugins
DispatchHook(hook) ==
    /\ \E order \in MapOrders(DOMAIN pm.plugins) :
          pm' = [pm EXCEPT !.last =
                   PluginManager_hook(pm.plugins, order, hook,
                                      [NoDispatch EXCEPT !.hook = hook])]
    /\ UNCHANGED <<serverVars, wop, gen, spawn, tickVars, ct>>
    /\ UNCHANGED codecVars

----------------------------------------------------------------------------
(* The specifications *)

Init ==
    /\ debugBuild \in BOOLEAN
    /\ vi = IdleVarint
    /\ vl = IdleVarlong
    /\ fr = IdleFrame
    /\ ps = IdlePosition
    /\ conn = [c \in Conns |-> NoConnection]
    /\ wire = [c \in Conns |-> <<>>]
    /\ sent = [c \in Conns |-> <<>>]
    /\ rcv = [c \in Conns |-> <<>>]
    /\ entities = <<>>
    /\ entity_counter = 1
    /\ chunks = NoChunks
    /\ wop = NoCall
    /\ gen = IdleGen
    /\ spawn = NoSpawn
    /\ worlds = {}
    /\ sandboxes = NoSandboxes
    /\ wdrv = IdleWorldDriver
    /\ sdrv = IdleSandboxDriver
    /\ ct = IdleTasks
    /\ pm = NoPlugins
    /\ sessions = [u \in {} |-> 0]

NextCodec ==
    \/ \E v \in VarintInputs : VarintStart(v)
    \/ VarintStep
    \/ VarintRead
    \/ \E v \in VarlongInputs : VarlongStart(v)
    \/ VarlongStep
    \/ VarlongRead
    \/ \E id \in FrameIds, data \in FramePayloads : FrameEncodeStep(id, data)
    \/ \E k \in 0..(LongLen + 8) : FrameTruncate(k)
    \/ FrameDecodeStep
    \/ \E x \in PositionXZ, y \in PositionY, z \in PositionXZ : PositionWrite(x, y, z)
    \/ PositionRead

\* the packet ids that ServerBoundPacket::decode has an arm for, per state
DefinedIds(state) ==
    CASE state = "Handshaking" -> {0}
      [] state = "Status" -> {0, 1}
      [] state = "Login" -> {0, 1, 2}
      [] state = "Play" -> {15, 5, 20, 21, 22, 26, 46, 10}

\* the scripts that log in
LoginScripts ==
    { <<HandshakeFrame(2), LoginStartFrame(<<97>>, UuidBytes(1))>>,
      <<HandshakeFrame(2), LoginStartFrame(<<98>>, <<>>)>>,
      <<HandshakeFrame(2), LoginStartFrame(<<97>>, UuidBytes(1)),
        LoginStartFrame(<<97>>, UuidBytes(1))>>,
      <<HandshakeFrame(2), LoginStartFrame(<<97>>, UuidBytes(2))>> }

\* one connection, every script, every segmentation
NextServer ==
    \E c \in {"c1"} :
        \/ \E script \in Scripts : \E segments \in Segmentations(script) :
              Accept(c, segments)
        \/ RecvBytes(c)
        \/ RecvEof(c)
        \/ RecvError(c)
        \/ ReadFail(c)
        \/ HandleHandshake(c)
        \/ HandleStatusRequest(c)
        \/ HandleStatusPing(c)
        \/ HandleLoginStart(c)
        \/ HandleKeepAlive(c)
        \/ HandleOther(c)

\* the world and its chunks, called directly
NextWorld ==
    \/ GetOrGenerateChunk(0, 0)
    \/ \E p \in WorldPositions : GetBlock(p[1], p[2], p[3])
    \/ \E p \in WorldPositions, id \in BlockIds : SetBlock(p[1], p[2], p[3], id)

SpecWorld == Init /\ [][NextWorld]_vars

\* one chunk: generated, written and encoded
NextChunk ==
    \/ \E height \in FlatHeights : GenerateFlatStart(height)
    \/ GenerateFlatColumn
    \/ \E p \in ChunkPositions, id \in BlockIds : ChunkSetBlock(p[1], p[2], p[3], id)
    \/ ChunkEncode

SpecChunk == Init /\ [][NextChunk]_vars

\* the tasks in spawn_player, interleaved at every await point
NextSpawn ==
    \/ \E t \in Tasks, k \in {1, 2} : SpawnCall(t, UuidBytes(k))
    \/ \E t \in Tasks : SpawnAcquireCounter(t)
    \/ \E t \in Tasks : SpawnReadCounter(t)
    \/ \E t \in Tasks : SpawnIncrement(t)
    \/ \E t \in Tasks : SpawnAcquireEcs(t)
    \/ \E t \in Tasks : SpawnEntity(t)
    \/ EcsAcquire
    \/ EcsRelease

SpecSpawn == Init /\ [][NextSpawn]_vars

\* two positions of chunk (0, 0) and the ids written there
BlockWrites == { <<3, 64, 5, 7>>, <<4, 70, 6, 9>>, <<3, 64, 5, 9>> }

\* the chunk operations of World, called by concurrent tasks
NextBlocks ==
    \E t \in Workers :
        \/ \E a \in BlockWrites : TaskCall(t, "set_block", a)
        \/ TaskCall(t, "get_block", <<3, 64, 5>>)
        \/ TaskCall(t, "get_or_generate_chunk", <<0, 0>>)
        \/ SetBlockWrite(t)
        \/ SetBlockApply(t)
        \/ GenerateChunkWrite(t)
        \/ GenerateChunkInsert(t)
        \/ SetBlockSetChunkWrite(t)
        \/ SetBlockSetChunk(t)
        \/ GetChunkRead(t)
        \/ GetChunk(t)

SpecBlocks == Init /\ [][NextBlocks]_vars

\* the steps of task t inside a call
TaskStep(t) ==
    \/ SetBlockWrite(t)
    \/ SetBlockApply(t)
    \/ GenerateChunkWrite(t)
    \/ GenerateChunkInsert(t)
    \/ SetBlockSetChunkWrite(t)
    \/ SetBlockSetChunk(t)
    \/ GetChunkRead(t)
    \/ GetChunk(t)
    \/ SpawnPlayerCounter(t)
    \/ SpawnPlayerEcs(t)
    \/ SpawnPlayerSpawn(t)
    \/ GetAllPlayersRead(t)
    \/ GetAllPlayers(t)
    \/ LoginSuccess(t)
    \/ LoginSessions(t)
    \/ LoginJoinGame(t)
    \/ LoginPosition(t)
    \/ LoginChunkData(t)

\* the name and uuid that each task logs in with
LoginOf(t) == IF t = "t1" THEN <<<<97>>, UuidBytes(1)>> ELSE <<<<98>>, UuidBytes(2)>>

\* connection tasks that log in, and the socket of the first, which may stop
\* being drained
NextLogins ==
    \/ \E t \in Workers :
          \/ entity_counter <= MaxLogins /\ TaskCall(t, "login", LoginOf(t))
          \/ GetChunkRead(t)
          \/ GetChunk(t)
          \/ GenerateChunkWrite(t)
          \/ GenerateChunkInsert(t)
          \/ SpawnPlayerCounter(t)
          \/ SpawnPlayerEcs(t)
          \/ SpawnPlayerSpawn(t)
          \/ LoginSuccess(t)
          \/ LoginSessions(t)
          \/ LoginJoinGame(t)
          \/ LoginPosition(t)
          \/ LoginChunkData(t)
    \/ Congest("t1")
    \/ Drain("t1")

SpecLogins == Init /\ [][NextLogins]_vars

\* a connection task that logs in while another task calls each operation
\* of the world once: set_block, get_block, get_or_generate_chunk,
\* get_all_players and spawn_player, in this order; the sockets are drained
AfterCall(t, op) == ct.task["t1"].op = "login" /\ ct.task[t].op = op

NextLocks ==
    \/ entity_counter <= MaxLogins /\ TaskCall("t1", "login", LoginOf("t1"))
    \/ AfterCall("t2", "") /\ TaskCall("t2", "set_block", <<3, 64, 5, 7>>)
    \/ AfterCall("t2", "set_block") /\ TaskCall("t2", "get_block", <<3, 64, 5>>)
    \/ AfterCall("t2", "get_block") /\ TaskCall("t2", "get_or_generate_chunk", <<0, 0>>)
    \/ AfterCall("t2", "get_or_generate_chunk") /\ TaskCall("t2", "get_all_players", <<>>)
    \/ AfterCall("t2", "get_all_players") /\ TaskCall("t2", "spawn_player", LoginOf("t2"))
    \/ \E t \in Workers : TaskStep(t)

SpecLocks ==
    /\ Init
    /\ [][NextLocks]_vars
    /\ \A t \in Workers : SF_vars(TaskStep(t))

\* the steps of task t inside a call on the shared runtime
RuntimeStep(t) ==
    \/ LoadModuleStore(t)
    \/ LoadModuleInstance(t)
    \/ CallFunctionStore(t)
    \/ CallFunctionInstance(t)
    \/ CallFunctionReturn(t)

\* one runtime: the tick driver calls tick, an event emitter calls
\* on_player_join, and either task loads a module
NextHooks ==
    \/ \E m \in Modules : SharedRuntime \notin DOMAIN sandboxes /\ CreateSandbox(SharedRuntime, m)
    \/ SharedRuntime \in DOMAIN sandboxes /\ TaskCall("t1", "call_function", <<"tick">>)
    \/ SharedRuntime \in DOMAIN sandboxes
          /\ TaskCall("t2", "call_function", <<"on_player_join">>)
    \/ \E t \in Workers, m \in Modules :
          SharedRuntime \in DOMAIN sandboxes /\ TaskCall(t, "load_module", <<m>>)
    \/ \E t \in Workers : RuntimeStep(t)

SpecHooks == Init /\ [][NextHooks]_vars

\* the plugins: loaded, unloaded, enabled and disabled, and the hooks
\* dispatched to them
NextPlugins ==
    \/ \E n \in PluginNames, s \in LuaScripts : LoadPlugin(n, s)
    \/ \E n \in PluginNames : UnloadPlugin(n)
    \/ \E n \in PluginNames : EnablePlugin(n)
    \/ \E n \in PluginNames : DisablePlugin(n)
    \/ \E h \in PluginHooks : DispatchHook(h)

SpecPlugins == Init /\ [][NextPlugins]_vars

\* the sandboxes: created, called and ticked by the driver
NextSandbox ==
    \/ \E w \in {"w1", "w2"}, m \in Modules : CreateSandbox(w, m)
    \/ \E w \in WorldIds : CallHook(w, "on_player_join")
    \/ SandboxDriverFire
    \/ \E w \in WorldIds : SandboxTickOne(w)
    \/ SandboxTickAllReturn

SpecSandbox == Init /\ [][NextSandbox]_vars

\* the module of the sandboxes that the tick drivers run: its tick traps
\* until the fuel is gone
FailingModule == [tick |-> Export(500000000, TRUE), on_player_join |-> NoExport]

\* the steps of the world tick driver
WorldDriver ==
    \/ WorldDriverFire
    \/ \E w \in WorldIds : WorldTickOne(w)
    \/ WorldTickAllReturn

\* the steps of the sandbox tick driver
SandboxDriver ==
    \/ SandboxDriverFire
    \/ \E w \in WorldIds : SandboxTickOne(w)
    \/ SandboxTickAllReturn

\* the world tick driver of main and the worlds registered and removed
\* through the API
NextTick ==
    \/ \E w \in {"w1", "w2"} : CreateWorld(w)
    \/ \E w \in {"w1", "w2"} : DeleteWorld(w)
    \/ Advance
    \/ WorldDriver

\* the runtime runs every task that can run, and time passes
SpecTick ==
    /\ Init
    /\ [][NextTick]_vars
    /\ WF_vars(WorldDriver)
    /\ WF_vars(Advance)

\* the two tick drivers of main, a world, and sandboxes whose ticks fail
NextDrivers ==
    \/ CreateWorld("w1")
    \/ \E w \in {"w1", "w2"} \ DOMAIN sandboxes : CreateSandbox(w, FailingModule)
    \/ Advance
    \/ WorldDriver
    \/ SandboxDriver

SpecDrivers ==
    /\ Init
    /\ [][NextDrivers]_vars
    /\ WF_vars(WorldDriver)
    /\ WF_vars(SandboxDriver)
    /\ WF_vars(Advance)

\* the worlds registered and removed through the API, a sandbox per world,
\* and the sandbox tick driver
NextRemoval ==
    \/ \E w \in {"w1", "w2"} : CreateWorld(w)
    \/ \E w \in {"w1", "w2"} : DeleteWorld(w)
    \/ \E w \in worlds \ DOMAIN sandboxes : CreateSandbox(w, FailingModule)
    \/ SandboxDriver

SpecRemoval == Init /\ [][NextRemoval]_vars

SpecCodec == Init /\ [][NextCodec]_vars

\* PacketFrame::decode on read buffers of any content
NextFrames ==
    \/ \E buf \in RawBuffers : FrameReceive(buf)
    \/ FrameDecodeStep

SpecFrames == Init /\ [][NextFrames]_vars

SpecServer == Init /\ [][NextServer]_vars

\* every connection, the scripts that log in, one frame per read
NextLogin ==
    \E c \in Conns :
        \/ \E script \in LoginScripts : Accept(c, script)
        \/ RecvBytes(c)
        \/ RecvEof(c)
        \/ ReadFail(c)
        \/ HandleHandshake(c)
        \/ HandleLoginStart(c)

SpecLogin == Init /\ [][NextLogin]_vars

\* every connection, the scripts that log in and play, one frame per read
NextPlay ==
    \E c \in Conns :
        \/ \E script \in PlayScripts : Accept(c, script)
        \/ RecvBytes(c)
        \/ RecvEof(c)
        \/ HandleHandshake(c)
        \/ HandleLoginStart(c)
        \/ HandleKeepAlive(c)
        \/ HandleOther(c)

SpecPlay == Init /\ [][NextPlay]_vars

----------------------------------------------------------------------------
(* Properties of the codec, under SpecCodec *)

\* C1: decoding a buffer that holds exactly the bytes of encode(id, payload)
\* returns a frame with the same id and the same payload and leaves the
\* buffer empty.
C1_FrameRoundTrip ==
    (fr.pc = "decoded" /\ ~fr.cut) =>
        /\ fr.res.kind = "frame"
        /\ fr.res.id = fr.id
        /\ fr.res.data = fr.data
        /\ fr.buf = <<>>

\* the largest id with the long payload has been encoded and decoded
C1_Witness ==
    /\ fr.pc = "decoded"
    /\ ~fr.cut
    /\ fr.id = 268435456
    /\ Len(fr.data) = LongLen
    /\ Len(fr.before) = LongLen + 7
    /\ fr.res.kind = "frame"

\* C2: decoding a strict prefix of an encoded frame returns "need more"
\* (Ok(None)) and leaves the buffer as it was.
C2_PrefixNeedsMore ==
    (fr.pc = "decoded" /\ fr.cut) =>
        /\ fr.res.kind = "none"
        /\ fr.buf = fr.before

\* a prefix that holds the whole length prefix and the id but not the whole
\* payload has been decoded
C2_Witness ==
    /\ fr.pc = "decoded"
    /\ fr.cut
    /\ Len(fr.data) = LongLen
    /\ Len(fr.before) = LongLen
    /\ fr.res.kind = "none"
    /\ fr.buf = fr.before

\* C3: read_varint on the bytes of write_varint(v) returns v, for every
\* 32-bit v, and read_varlong on the bytes of write_varlong(v) returns v, for
\* every 64-bit v.  While the writer is still in its loop, the bytes it has
\* emitted must still be the beginning of something the reader accepts.
C3_VarintRoundTrip ==
    /\ vi.pc = "read" => (vi.res.kind = "ok" /\ vi.res.value = vi.input)
    /\ vi.pc = "loop" => ReadVarint(Append(vi.st.out, 0), 0, debugBuild).kind = "ok"
    /\ vl.pc = "read" => (vl.res.kind = "ok" /\ vl.res.value = vl.input)
    /\ vl.pc = "loop" => ReadVarlong(Append(vl.st.out, 0), 0, debugBuild).kind = "ok"

\* C4: write_varint terminates with 1 to 5 bytes and write_varlong with 1 to
\* 10 bytes: no iteration of the loop leaves the value as it was without
\* exiting, the output never exceeds 5 (10) bytes, and the lengths for 0, 127,
\* 128 and -1 are 1, 1, 2 and 5.
C4_VarintLength ==
    /\ Len(vi.st.out) <= 5
    /\ Len(vl.st.out) <= 10
    /\ (vi.pc = "loop" /\ vi.st.out # <<>>) => WriteVarintIter(vi.st).value # vi.st.value
    /\ (vl.pc = "loop" /\ vl.st.out # <<>>) => WriteVarlongIter(vl.st).value # vl.st.value
    /\ vi.pc \in {"written", "read"} =>
          /\ Len(vi.st.out) >= 1
          /\ vi.input \in {0, 127} => Len(vi.st.out) = 1
          /\ vi.input = 128 => Len(vi.st.out) = 2
          /\ vi.input = -1 => Len(vi.st.out) = 5
    /\ vl.pc \in {"written", "read"} => Len(vl.st.out) >= 1

\* C5: read_position on the value written by write_position(x, y, z) returns
\* (x, y, z); x is in bits 38..63, z in bits 12..37 and y in bits 0..11.
C5_PositionRoundTrip ==
    ps.pc = "read" =>
        /\ ps.res.kind = "ok"
        /\ ps.res.value = ps.in
        /\ LET val == GetI64Bits(ps.bytes, 0)
           IN  /\ \A i \in 0..25 : val[38 + i] = Bit32(ps.in[1], i)
               /\ \A i \in 0..25 : val[12 + i] = Bit32(ps.in[3], i)
               /\ \A i \in 0..11 : val[i] = Bit32(ps.in[2], i)

\* the most negative x and y with the largest z have been written and read
C5_Witness ==
    /\ ps.pc = "read"
    /\ ps.in = <<-33554432, -2048, 33554431>>
    /\ ps.res.value = <<-33554432, -2048, 33554431>>

----------------------------------------------------------------------------
(* Properties of the server, under SpecServer and SpecLogin *)

\* C6: on a connection that has received Handshake{next_state=1},
\* StatusRequest and StatusPing{payload=N}, in this order, and whose writes
\* did not fail, the server has emitted exactly one StatusResponse followed by
\* exactly one StatusPong with payload N, and the connection is closed; on a
\* closed connection no packet is read or written any more.
C6_StatusExchange ==
    /\ [](\A c \in Conns :
            LET r == rcv[c]
                s == sent[c]
            IN  (/\ Len(r) = 3
                 /\ r[1].type = "Handshake" /\ r[1].next_state = 1
                 /\ r[2].type = "StatusRequest"
                 /\ r[3].type = "StatusPing") =>
                    /\ conn[c].status = "closed"
                    /\ conn[c].close \in {"done", "Io"}
                    /\ conn[c].close = "done" =>
                          /\ Len(s) = 2
                          /\ s[1].type = "StatusResponse" /\ s[1].protocol = 762
                          /\ s[2] = [type |-> "StatusPong", payload |-> r[3].payload])
    /\ [][\A c \in Conns :
            conn[c].status = "closed" =>
                /\ conn'[c] = conn[c]
                /\ sent'[c] = sent[c]
                /\ rcv'[c] = rcv[c]]_vars

\* the ping with payload 0xDEADBEEF has been answered and the task has ended
C6_Witness ==
    /\ conn["c1"].status = "closed"
    /\ conn["c1"].close = "done"
    /\ Len(rcv["c1"]) = 3
    /\ rcv["c1"][1].type = "Handshake"
    /\ rcv["c1"][2].type = "StatusRequest"
    /\ rcv["c1"][3] = [type |-> "StatusPing", payload |-> PingPayload]
    /\ Len(sent["c1"]) = 2
    /\ sent["c1"][2] = [type |-> "StatusPong", payload |-> PingPayload]

\* the shape of the k-th packet written after a LoginStart
LoginReplyShape(p, k, name) ==
    IF k = 1 THEN p.type = "LoginSuccess" /\ p.username = name
    ELSE IF k = 2 THEN p.type = "JoinGame"
    ELSE IF k = 3 THEN p.type = "PlayerPositionAndLook" /\ p.y = 64
    ELSE /\ p.type = "ChunkData"
         /\ p.x \in (-2)..2
         /\ p.z \in (-2)..2

\* C7: on a connection that has received Handshake{next_state=2} and then
\* LoginStart{name}, the packets emitted are, in this order, one LoginSuccess,
\* one JoinGame, one PlayerPositionAndLook with y = 64 and then ChunkData
\* packets only; unless a write failed there are exactly 25 ChunkData, exactly
\* one for each (cx, cz) with cx and cz in -2..2, and none of these packets is
\* emitted again afterwards.
C7_LoginSequence ==
    \A c \in Conns :
        LET r == rcv[c]
            s == sent[c]
        IN  (/\ Len(r) >= 2
             /\ r[1].type = "Handshake" /\ r[1].next_state = 2
             /\ r[2].type = "LoginStart") =>
                /\ \A k \in 1..Len(s) : k <= 28 => LoginReplyShape(s[k], k, r[2].name)
                /\ \A k \in 1..Len(s) : \A j \in 1..Len(s) :
                      (k < j /\ s[k].type = "ChunkData" /\ s[j].type = "ChunkData")
                          => <<s[k].x, s[k].z>> # <<s[j].x, s[j].z>>
                /\ ~(Len(r) = 2 /\ conn[c].close = "Io") =>
                      /\ Len(s) >= 28
                      /\ \A cx \in (-2)..2 : \A cz \in (-2)..2 :
                            Cardinality({k \in 4..28 : s[k].x = cx /\ s[k].z = cz}) = 1
                      /\ \A k \in 29..Len(s) :
                            s[k].type \notin {"LoginSuccess", "JoinGame",
                                              "PlayerPositionAndLook", "ChunkData"}

\* a login has been answered in full and a KeepAlive echoed after it
C7_Witness ==
    /\ Len(rcv["c1"]) = 3
    /\ rcv["c1"][2].type = "LoginStart"
    /\ rcv["c1"][3].type = "KeepAlive"
    /\ Len(sent["c1"]) = 29
    /\ sent["c1"][1].type = "LoginSuccess"
    /\ sent["c1"][28] = [type |-> "ChunkData", x |-> 2, z |-> 2]
    /\ sent["c1"][29].type = "KeepAlive"

\* the entities that carry the uuid and the username
EntitiesOf(uuid, name) ==
    {k \in 1..Len(entities) :
        entities[k].EntityUuid = uuid /\ entities[k].Player.username = name}

\* C8: after a login for username U and uuid id (the LoginStart was accepted
\* in the Login state and its LoginSuccess written), the world contains
\* exactly one entity whose EntityUuid = id and whose Player.username = U, and
\* that entity is at (0, 64, 0) with health 20.
C8_OneEntityPerLogin ==
    \A c \in Conns :
        (/\ Len(rcv[c]) >= 2
         /\ rcv[c][2].type = "LoginStart"
         /\ Len(sent[c]) >= 1
         /\ sent[c][1].type = "LoginSuccess") =>
            LET es == EntitiesOf(sent[c][1].uuid, rcv[c][2].name)
            IN  /\ Cardinality(es) = 1
                /\ \A k \in es :
                      /\ entities[k].Position = <<0, 64, 0>>
                      /\ entities[k].Health.current = 20

\* the connection is in Play and the frame at the head of its read buffer is
\* a LoginStart frame
SecondLoginStart(c) ==
    /\ conn[c].status = "open"
    /\ conn[c].state = "Play"
    /\ LET frame == Cur(c)
       IN  /\ frame.kind = "frame"
           /\ frame.id = 0
           /\ DecodeLoginStart(frame.data, debugBuild).kind = "ok"

\* C9: when a connection in state Play has a second LoginStart frame to
\* read, reading it closes the connection and creates no entity and no
\* session and emits nothing; a connection never handles two LoginStart, and
\* one connection never accounts for more than one entity or session.
C9_SecondLoginRejected ==
    /\ [](/\ \A c \in Conns :
                Cardinality({k \in 1..Len(rcv[c]) : rcv[c][k].type = "LoginStart"}) <= 1
          /\ Len(entities) <= Cardinality({c \in Conns : conn[c].status # "none"})
          /\ Cardinality(DOMAIN sessions)
                <= Cardinality({c \in Conns : conn[c].status # "none"}))
    /\ [][\A c \in Conns :
            (SecondLoginStart(c) /\ conn'[c] # conn[c]) =>
                /\ conn'[c].status = "closed"
                /\ conn'[c].close = "InvalidPacket"
                /\ entities' = entities
                /\ entity_counter' = entity_counter
                /\ sessions' = sessions
                /\ sent'[c] = sent[c]
                /\ rcv'[c] = rcv[c]]_vars

\* a logged-in connection has been closed by its second LoginStart
C9_Witness ==
    /\ conn["c1"].status = "closed"
    /\ conn["c1"].close = "InvalidPacket"
    /\ conn["c1"].state = "Play"
    /\ Len(rcv["c1"]) = 2
    /\ rcv["c1"][2].type = "LoginStart"
    /\ rcv["c1"][2].name = <<97>>
    /\ Len(sent["c1"]) = 28
    /\ Len(entities) = 1
    /\ Cardinality(DOMAIN sessions) = 1

\* C10: a well-formed frame whose packet id is not defined for the current
\* state of the connection is skipped: the connection stays open, its state
\* is unchanged and the frame is consumed, so that the next frame is read.
C10_UnknownIdSkipped ==
    [][\A c \in Conns :
         (/\ conn[c].status = "open"
          /\ Cur(c).kind = "frame"
          /\ Cur(c).id \notin DefinedIds(conn[c].state)
          /\ conn'[c] # conn[c]) =>
             /\ conn'[c].status = "open"
             /\ conn'[c].state = conn[c].state
             /\ conn'[c].read_buffer = Cur(c).rest]_vars

\* the buffer starts with a length varint of more than five bytes
OverlongLength(buf) ==
    /\ Len(buf) >= 5
    /\ \A i \in 1..5 : buf[i] >= 128

\* the buffer holds a whole Handshake frame (protocol version 762, two bytes)
\* whose server_address declares more than 4 * 255 bytes or holds a byte 0xFF,
\* which no UTF-8 text contains
BadStringHandshake(buf) ==
    /\ Len(buf) >= 5
    /\ buf[1] < 128
    /\ Len(buf) >= buf[1] + 1
    /\ buf[2] = 0
    /\ <<buf[3], buf[4]>> = <<250, 5>>
    /\ \/ buf[5] >= 128 /\ Len(buf) >= 6 /\ (buf[5] - 128) + 128 * buf[6] > 4 * 255
       \/ /\ buf[5] < 128
          /\ 5 + buf[5] <= buf[1] + 1
          /\ \E i \in 6..(5 + buf[5]) : buf[i] = 255

\* C11: an open connection whose read buffer starts with a length varint of
\* more than five bytes, or holds a frame with invalid UTF-8 in a string or
\* with a string that declares more than four times its maximum, is read as
\* an error and never as an incomplete frame, and the step that the
\* connection takes from there closes it with that error.
C11_InvalidFrameCloses ==
    /\ [](\A c \in Conns :
            (/\ conn[c].status = "open"
             /\ \/ OverlongLength(conn[c].read_buffer)
                \/ conn[c].state = "Handshaking" /\ BadStringHandshake(conn[c].read_buffer))
                => CurPkt(c).kind = "err")
    /\ [][\A c \in Conns :
            (/\ conn[c].status = "open"
             /\ \/ OverlongLength(conn[c].read_buffer)
                \/ conn[c].state = "Handshaking" /\ BadStringHandshake(conn[c].read_buffer)
             /\ conn'[c] # conn[c])
                => /\ conn'[c].status = "closed"
                   /\ conn'[c].close \in {"InvalidPacket", "StringTooLong"}]_vars

\* C12: a connection starts in Handshaking, and its state changes only in a
\* step that receives a packet, and only from Handshaking to Status on a
\* Handshake with next_state = 1, from Handshaking to Login on a Handshake
\* with next_state = 2, and from Login to Play on a LoginStart.
C12_StateTransitions ==
    /\ [](\A c \in Conns : rcv[c] = <<>> => conn[c].state = "Handshaking")
    /\ [][\A c \in Conns :
            conn'[c].state # conn[c].state =>
                /\ Len(rcv'[c]) = Len(rcv[c]) + 1
                /\ SubSeq(rcv'[c], 1, Len(rcv[c])) = rcv[c]
                /\ LET p == rcv'[c][Len(rcv'[c])]
                       from == conn[c].state
                       to == conn'[c].state
                   IN  \/ /\ from = "Handshaking" /\ to = "Status"
                          /\ p.type = "Handshake" /\ p.next_state = 1
                       \/ /\ from = "Handshaking" /\ to = "Login"
                          /\ p.type = "Handshake" /\ p.next_state = 2
                       \/ /\ from = "Login" /\ to = "Play"
                          /\ p.type = "LoginStart"]_vars

\* a connection has gone from Handshaking over Login to Play and has echoed a
\* KeepAlive there
C12_Witness ==
    /\ conn["c1"].status = "open"
    /\ conn["c1"].state = "Play"
    /\ Len(rcv["c1"]) = 3
    /\ rcv["c1"][1].type = "Handshake"
    /\ rcv["c1"][2].type = "LoginStart"
    /\ rcv["c1"][3].type = "KeepAlive"

\* the y of the highest block of column (x, z) of a chunk that is not 0, or 0
\* when the column holds no such block
HighestBlock(chunk, x, z) ==
    LET ys == { y \in 0..(CHUNK_HEIGHT - 1) : Chunk_get_block(chunk, x, y, z) # 0 }
    IN  IF ys = {} THEN 0 ELSE CHOOSE y \in ys : \A o \in ys : o <= y

\* C13: in every chunk of the world, generated and then written by any
\* sequence of set_block calls, the heightmap entry of every column is the
\* largest y at which the column holds a block that is not 0, or 0 when the
\* column holds none
C13_HeightmapIsTop ==
    \A key \in DOMAIN chunks :
        \A x \in 0..(CHUNK_WIDTH - 1), z \in 0..(CHUNK_WIDTH - 1) :
            chunks[key].heightmap[z * CHUNK_WIDTH + x] = HighestBlock(chunks[key], x, z)

\* the part of C13 that is about set_block alone: a write of a block that is
\* not 0 leaves the heightmap entry of its column at least as high as the block
C13_WriteRaises ==
    (wop.op = "set_block" /\ wop.args[4] # 0 /\ wop.args[2] \in 0..(CHUNK_HEIGHT - 1))
        => LET a == wop.args
               chunk == chunks[<<Sar32(a[1], 4), Sar32(a[3], 4)>>]
           IN  chunk.heightmap[(a[3] % CHUNK_WIDTH) * CHUNK_WIDTH + (a[1] % CHUNK_WIDTH)]
                   >= a[2]

\* the positions read back around the calls: the positions written and their
\* neighbours along each axis, in the same chunk and in the next one
Probes ==
    WorldPositions \cup
    UNION { { <<p[1] + d, p[2], p[3]>>, <<p[1], p[2], p[3] + d>> } :
            p \in WorldPositions, d \in {-16, -1, 1, 16} } \cup
    { <<p[1], p[2] + d, p[3]>> : p \in WorldPositions, d \in {-1, 1} }

\* the block the flat generator of the world puts at height y
FlatGeneratorBlock(y) ==
    IF y = 0 THEN 7 ELSE IF y \in {1, 2} THEN 3 ELSE IF y = 3 THEN 2 ELSE 0

\* C14: after World::set_block(x, y, z, id) with y inside the chunk height,
\* get_block(x, y, z) returns id, also for negative x and z and for a chunk
\* that was absent; every other position reads as before the call, or as the
\* flat generator's block where the call generated the chunk
C14_SetThenGet ==
    [][(wop'.writes = wop.writes + 1 /\ wop'.args[2] \in 0..(CHUNK_HEIGHT - 1))
        => LET a == wop'.args
               key == <<Sar32(a[1], 4), Sar32(a[3], 4)>>
           IN  \A q \in Probes :
                  World_get_block(chunks', q[1], q[2], q[3]) =
                      IF q = <<a[1], a[2], a[3]>>
                      THEN a[4]
                      ELSE IF key \notin DOMAIN chunks
                              /\ <<Sar32(q[1], 4), Sar32(q[3], 4)>> = key
                           THEN FlatGeneratorBlock(q[2])
                           ELSE World_get_block(chunks, q[1], q[2], q[3])]_vars

\* a block was written at negative x and z into a chunk that the call
\* generated, and reads back
C14_Witness ==
    /\ wop.op = "set_block"
    /\ wop.writes = 1
    /\ wop.args = <<-1, 383, -17, 65535>>
    /\ DOMAIN chunks = {<<-1, -2>>}
    /\ World_get_block(chunks, -1, 383, -17) = 65535
    /\ World_get_block(chunks, -1, 3, -17) = 2

\* C15: World::get_block returns 0 when the chunk of the position is absent
\* and when y is outside [0, CHUNK_HEIGHT); the call leaves the chunk map as
\* it was, so it neither generates nor inserts a chunk, and the only lock it
\* takes on the chunk map is the read lock
C15_GetBlockReadOnly ==
    /\ [](wop.op = "get_block"
            => /\ "chunks.write" \notin { wop.locks[i] : i \in DOMAIN wop.locks }
               /\ (\/ <<Sar32(wop.args[1], 4), Sar32(wop.args[3], 4)>> \notin DOMAIN chunks
                   \/ wop.args[2] < 0
                   \/ wop.args[2] >= CHUNK_HEIGHT) => wop.value = 0)
    /\ [][wop'.op = "get_block" => chunks' = chunks]_vars

\* get_block was called on a chunk that is absent while another chunk is
\* loaded, and returned 0 at a height where the generator puts bedrock
C15_Witness ==
    /\ wop.op = "get_block"
    /\ wop.args = <<16, 0, 15>>
    /\ wop.value = 0
    /\ DOMAIN chunks = {<<0, 0>>}

\* get_block was called above the chunk height on a loaded chunk
C15_WitnessAbove ==
    /\ wop.op = "get_block"
    /\ wop.args = <<0, 384, 0>>
    /\ wop.value = 0
    /\ <<0, 0>> \in DOMAIN chunks

\* the sections that hold at least one block that is not 0, looked for among
\* the blocks that were ever written (a new section holds only 0)
PresentSections(chunk) ==
    { s \in 0..(SECTIONS_PER_CHUNK - 1) :
        \E index \in DOMAIN chunk.sections[s].blocks :
            Chunk_get_block(chunk, index % CHUNK_WIDTH,
                            s * SECTION_HEIGHT + index \div (CHUNK_WIDTH * CHUNK_WIDTH),
                            (index \div CHUNK_WIDTH) % CHUNK_WIDTH) # 0 }

\* the bytes of a present section after its marker: the block count, two
\* bytes for each block, and the two light arrays
SectionPayloadSize ==
    2 + 2 * (CHUNK_WIDTH * SECTION_HEIGHT * CHUNK_WIDTH)
      + (CHUNK_WIDTH * SECTION_HEIGHT * CHUNK_WIDTH) \div 2
      + (CHUNK_WIDTH * SECTION_HEIGHT * CHUNK_WIDTH) \div 2

\* C16: Chunk::encode returns 16*16*4 bytes of heightmap, then for each
\* section a marker byte followed by the payload when the section is present
\* (marker 1) and nothing when it is not (marker 0), then 16*16*4 bytes of
\* biomes; a section is present exactly when it holds a block that is not 0
C16_EncodeLength ==
    gen.pc = "encoded"
        => \E present \in {PresentSections(gen.chunk)} :
            /\ Len(gen.bytes) = CHUNK_WIDTH * CHUNK_WIDTH * 4
                                 + SECTIONS_PER_CHUNK
                                 + Cardinality(present) * SectionPayloadSize
                                 + CHUNK_WIDTH * CHUNK_WIDTH * 4
            /\ \A s \in 0..(SECTIONS_PER_CHUNK - 1) :
                 gen.bytes[CHUNK_WIDTH * CHUNK_WIDTH * 4 + s
                           + Cardinality({t \in present : t < s}) * SectionPayloadSize + 1]
                     = (IF s \in present THEN 1 ELSE 0)

\* a chunk was encoded whose first and last sections are present and whose
\* second section was written with a 0 only
C16_Witness ==
    /\ gen.pc = "encoded"
    /\ gen.height = 4
    /\ Chunk_get_block(gen.chunk, 15, 383, 1) = 65535
    /\ 4 * CHUNK_WIDTH + 3 \in DOMAIN gen.chunk.sections[1].blocks
    /\ Chunk_get_block(gen.chunk, 3, 16, 4) = 0
    /\ Len(gen.bytes) = 2 * CHUNK_WIDTH * CHUNK_WIDTH * 4 + 22 + 2 * (1 + SectionPayloadSize)

\* C17: generate_flat(height) with height >= 2 on a new chunk leaves in every
\* column bedrock (7) at y = 0, dirt (3) at 1..height-2, grass (2) at
\* y = height - 1 and 0 from height up, with the heightmap entry equal to
\* height; run column by column it gives the chunk that generate_flat gives
C17_FlatLayers ==
    (gen.pc \in {"done", "encoded"} /\ gen.writes = 0)
        => /\ gen.chunk = generate_flat(Chunk_new(<<0, 0>>), gen.height)
           /\ gen.height >= 2
                => \A x \in 0..(CHUNK_WIDTH - 1), z \in 0..(CHUNK_WIDTH - 1) :
                      /\ gen.chunk.heightmap[z * CHUNK_WIDTH + x] = gen.height
                      /\ \A y \in 0..(CHUNK_HEIGHT - 1) :
                            Chunk_get_block(gen.chunk, x, y, z) =
                                IF y = 0 THEN 7
                                ELSE IF y <= gen.height - 2 THEN 3
                                ELSE IF y = gen.height - 1 THEN 2
                                ELSE 0

\* generate_flat(17) has run through all its columns: the grass is the first
\* layer of the second section
C17_Witness ==
    /\ gen.pc = "done"
    /\ gen.writes = 0
    /\ gen.height = 17
    /\ gen.k = CHUNK_WIDTH * CHUNK_WIDTH
    /\ Chunk_get_block(gen.chunk, 15, 16, 15) = 2
    /\ Chunk_get_block(gen.chunk, 15, 15, 15) = 3

\* C18: no two entities of the world carry the same EntityUuid, also after
\* two connections have sent LoginStart with the same uuid and after a second
\* login of a player
C18_UniqueEntityUuid ==
    \A i \in 1..Len(entities), j \in 1..Len(entities) :
        i # j => entities[i].EntityUuid # entities[j].EntityUuid

\* C20: every session belongs to a connection that has logged in and is
\* still open: the sessions are no more than the open connections in Play,
\* and each session carries the uuid of the LoginSuccess of one of them
C20_SessionsOfOpenConnections ==
    /\ Cardinality(DOMAIN sessions)
          <= Cardinality({c \in Conns : conn[c].status = "open" /\ conn[c].state = "Play"})
    /\ \A uuid \in DOMAIN sessions :
          \E c \in Conns :
              /\ conn[c].status = "open"
              /\ conn[c].state = "Play"
              /\ Len(sent[c]) >= 1
              /\ sent[c][1].type = "LoginSuccess"
              /\ sent[c][1].uuid = uuid

\* the part of C20 that the code keeps: no session exists before a login, and
\* every session carries the uuid of a LoginSuccess written to a connection
C20_SessionsAfterLogin ==
    \A uuid \in DOMAIN sessions :
        \E c \in Conns :
            /\ Len(sent[c]) >= 1
            /\ sent[c][1].type = "LoginSuccess"
            /\ sent[c][1].uuid = uuid

\* C19: the EntityIds that spawn_player assigns are pairwise distinct and
\* strictly increasing in the order of allocation, also with several tasks
\* inside spawn_player at once: an id read from the counter and not yet
\* spawned is above every id spawned and differs from every other such id,
\* and the counter never goes down
C19_EntityIdsIncrease ==
    /\ [](/\ \A i \in 1..Len(entities), j \in 1..Len(entities) :
                i < j => entities[i].EntityId < entities[j].EntityId
          /\ \A t \in Tasks :
                spawn.pc[t] \in {"increment", "ecs.write", "spawn"}
                    => /\ \A i \in 1..Len(entities) :
                             entities[i].EntityId < spawn.entity_id[t]
                       /\ \A o \in Tasks \ {t} :
                             spawn.pc[o] \in {"increment", "ecs.write", "spawn"}
                                 => spawn.entity_id[o] # spawn.entity_id[t])
    /\ [][entity_counter' >= entity_counter]_vars

\* the tasks are racing: one entity is spawned with id 1, a second task
\* holds the counter with id 2 read and waits for the entity store, which
\* another call holds, and a third task waits for the counter
C19_Witness ==
    /\ Len(entities) = 1
    /\ entities[1].EntityId = 1
    /\ spawn.pc["t2"] = "ecs.write"
    /\ spawn.entity_id["t2"] = 2
    /\ spawn.pc["t3"] = "counter.write"
    /\ spawn.counter_lock = "t2"
    /\ spawn.ecs_lock = "other"
    /\ entity_counter = 3

----------------------------------------------------------------------------
(* Properties of the sandboxes and of the tick drivers *)

\* the parts of C21 that the code keeps: no hook call burns more than the
\* budget, and a call that runs out of fuel returns an error and leaves the
\* instance registered and loaded
C21_ExhaustionKeepsInstance ==
    /\ sdrv.last.consumed <= FuelBudget
    /\ sdrv.last.result = "OutOfFuel"
          => (sdrv.last.world_id \in DOMAIN sandboxes
                => sandboxes[sdrv.last.world_id].instance \in Modules)

\* C21: no hook invocation burns more fuel than the per-tick budget; a hook
\* that runs out of fuel returns an error and leaves the instance in place;
\* and the instance remains callable: a tick hook invoked on it later is
\* run, it does not find the store without fuel
C21_CallableAfterExhaustion ==
    /\ C21_ExhaustionKeepsInstance
    /\ (sdrv.last.name = "tick" /\ sdrv.last.result # "NotFound"
           /\ sdrv.last.exhausted_before)
          => sdrv.last.fuel_before > 0

\* C22: the fuel is refilled to the full budget at the start of every tick:
\* every call of the tick hook starts with FuelBudget units of fuel
C22_RefuelEveryTick ==
    sdrv.last.name = "tick" => sdrv.last.fuel_before = FuelBudget


\* C23: under nominal load every world that was registered throughout a
\* window of 200 ms had its tick invoked at least three times within that
\* window, and every world is ticked again and again for as long as it
\* stays registered.
C23_ThreeTicksPerWindow ==
    \A w \in worlds : wdrv.reg[w] >= Window => wdrv.ages[w][3] <= Window

C23_TickedForever ==
    /\ []C23_ThreeTicksPerWindow
    /\ \A w \in WorldIds : []<>(w \notin worlds \/ (wdrv.pc = "iter" /\ w \in wdrv.ticked))

\* two worlds registered for a whole window, the driver late behind its
\* ticker, and the third last tick of a world as long ago as it gets
C23_Witness ==
    /\ worlds = {"w1", "w2"}
    /\ wdrv.reg["w1"] >= Window
    /\ wdrv.ages["w1"][3] = Window - Quantum
    /\ wdrv.next < 0

\* C25: an iteration of SandboxManager::tick_all ticks every sandbox of the
\* map and returns success, whatever ticks failed in it, and both tick drivers
\* start a new iteration again and again, also after a tick error.
C25_DriversSurviveErrors ==
    /\ [][(sdrv.pc = "iter" /\ sdrv'.pc = "sleep")
             => (sdrv.ticked = DOMAIN sandboxes /\ sdrv'.returned = "Ok")]_vars
    /\ []<>(sdrv.pc = "iter" /\ sdrv.ticked = {})
    /\ []<>(wdrv.pc = "iter" /\ wdrv.ticked = {})

\* tick_all has returned success from an iteration in which the tick of the
\* first sandbox ran out of fuel, the tick of the second trapped, and both
\* were ticked
C25_Witness ==
    /\ sdrv.pc = "sleep"
    /\ sdrv.returned = "Ok"
    /\ sdrv.errors = {"w1", "w2"}
    /\ sdrv.ticked = {"w1", "w2"}
    /\ sandboxes["w1"].fuel = 0
    /\ sandboxes["w2"].fuel > 0

\* C26: once a world has been removed, no later iteration of the sandbox
\* driver invokes a hook (tick) on the sandbox of that world's id.
C26_NoHookAfterRemoval ==
    [][\A w \in sdrv'.ticked \ sdrv.ticked : w \notin wdrv.removed]_vars

----------------------------------------------------------------------------
(* Properties of the Play state, under SpecPlay and SpecServer *)

\* the last packet that the task of connection c has handled
LastPacket(c) == IF rcv[c] = <<>> THEN [type |-> "none"] ELSE rcv[c][Len(rcv[c])]

\* C27: after the server has handled a PlayerBlockPlacement at position p of
\* a connection in Play, with no on_block_place hook to cancel it, the world
\* holds a block (not air) at p and the heightmap of p's column is at least
\* p.y.
C27_BlockPlaced ==
    \A c \in Conns :
        LastPacket(c).type = "PlayerBlockPlacement" =>
            LET p == LastPacket(c).location
                key == <<Sar32(p[1], 4), Sar32(p[3], 4)>>
            IN  /\ World_get_block(chunks, p[1], p[2], p[3]) # 0
                /\ key \in DOMAIN chunks
                /\ chunks[key].heightmap[LocalCoord(p[3]) * CHUNK_WIDTH + LocalCoord(p[1])]
                      >= p[2]

\* C28: when the server handles a ChatMessage of a connection in Play, and no
\* hook cancels it, every other connection that is open and in Play is sent
\* a chat frame with the message.
C28_ChatBroadcast ==
    [][\A c \in Conns :
          (Len(rcv'[c]) = Len(rcv[c]) + 1 /\ rcv'[c][Len(rcv'[c])].type = "ChatMessage") =>
              \A d \in Conns \ {c} :
                  (conn[d].status = "open" /\ conn[d].state = "Play") =>
                      /\ Len(sent'[d]) > Len(sent[d])
                      /\ sent'[d][Len(sent'[d])].type = "ChatMessage"
                      /\ sent'[d][Len(sent'[d])].message = rcv'[c][Len(rcv'[c])].message]_vars

\* C29: after the server has handled a PlayerPosition, PlayerRotation or
\* PlayerPositionAndRotation of a connection, the Position and the Rotation
\* of the entity of that connection's player are the values of the packet,
\* and the connection is in Play.
C29_EntityFollowsPacket ==
    \A c \in Conns :
        LET pkt == LastPacket(c) IN
        pkt.type \in {"PlayerPosition", "PlayerRotation", "PlayerPositionAndRotation"} =>
            /\ conn[c].state = "Play"
            /\ \E i \in 1..Len(rcv[c]) :
                  /\ rcv[c][i].type = "LoginStart"
                  /\ rcv[c][i].uuid # <<>>
                  /\ rcv[c][i].uuid[1] \in DOMAIN sessions
                  /\ LET e == entities[sessions[rcv[c][i].uuid[1]].entity]
                     IN  /\ pkt.type # "PlayerRotation" =>
                               /\ PutF64(e.Position[1]) = pkt.x
                               /\ PutF64(e.Position[2]) = pkt.y
                               /\ PutF64(e.Position[3]) = pkt.z
                         /\ pkt.type # "PlayerPosition" =>
                               /\ PutF32(e.Rotation[1]) = pkt.yaw
                               /\ PutF32(e.Rotation[2]) = pkt.pitch

\* the types of the packets that handle_packet writes in answer to a packet
ResponseTypes(type) ==
    CASE type = "StatusRequest" -> {"StatusResponse"}
      [] type = "StatusPing" -> {"StatusPong"}
      [] type = "LoginStart" -> {"LoginSuccess", "JoinGame", "PlayerPositionAndLook",
                                 "ChunkData"}
      [] type = "KeepAlive" -> {"KeepAlive"}
      [] OTHER -> {}

\* C30: the task of a connection handles the packets in the order of their
\* arrival (each one is the first frame of the bytes read and not yet
\* handled, and bytes read go to the end of the buffer), and what it writes
\* while it handles a packet is the answer to that packet, put behind all that
\* was written before; nothing is written between two packets.
C30_InOrder ==
    [][\A c \in Conns :
          /\ rcv'[c] # rcv[c] =>
                /\ conn[c].status = "open"
                /\ rcv'[c] = Append(rcv[c], CurPkt(c).pkt)
                /\ Len(sent'[c]) >= Len(sent[c])
                /\ SubSeq(sent'[c], 1, Len(sent[c])) = sent[c]
                /\ \A i \in (Len(sent[c]) + 1)..Len(sent'[c]) :
                      sent'[c][i].type \in ResponseTypes(CurPkt(c).pkt.type)
                /\ conn'[c].status = "open" => conn'[c].read_buffer = CurPkt(c).rest
          /\ rcv'[c] = rcv[c] =>
                /\ sent'[c] = sent[c]
                /\ (conn[c].status = "open" /\ conn'[c].status = "open"
                    /\ conn'[c].read_buffer # conn[c].read_buffer) =>
                        /\ wire[c] # <<>>
                        /\ conn'[c].read_buffer = conn[c].read_buffer \o Head(wire[c])]_vars

\* a login and a keep-alive that arrived in one read with a third packet: the
\* answer to the keep-alive is behind the answers to the login, and the third
\* packet waits in the buffer
C30_Witness ==
    /\ Len(rcv["c1"]) = 3
    /\ rcv["c1"][2].type = "LoginStart"
    /\ rcv["c1"][3].type = "KeepAlive"
    /\ Len(sent["c1"]) = Len(SpawnChunkOrder) + 4
    /\ sent["c1"][Len(sent["c1"])].type = "KeepAlive"
    /\ conn["c1"].status = "open"
    /\ conn["c1"].read_buffer = PlayerPositionFrame

----------------------------------------------------------------------------
(* Properties of the world under concurrent tasks *)

\* C31: when two tasks have run set_block at the same time on two different
\* positions of one chunk, and both calls have completed, get_block returns
\* the written id at both positions.
C31_BothWritesObservable ==
    \A t, u \in Workers :
        LET a == ct.task[t].args
            b == ct.task[u].args
        IN  ( /\ t # u
              /\ ct.task[t].pc = "done" /\ ct.task[t].op = "set_block"
              /\ ct.task[u].pc = "done" /\ ct.task[u].op = "set_block"
              /\ u \in ct.task[t].with
              /\ TaskKey(t) = TaskKey(u)
              /\ <<a[1], a[2], a[3]>> # <<b[1], b[2], b[3]>> )
            => /\ World_get_block(chunks, a[1], a[2], a[3]) = a[4]
               /\ World_get_block(chunks, b[1], b[2], b[3]) = b[4]

\* C32: no step of get_or_generate_chunk changes a chunk that is in the chunk
\* map: it inserts a chunk only where none is present, so it never reverts a
\* block that a completed set_block has written.
C32_ReadThrough ==
    [][\A t \in Workers :
          (ct.task[t].op = "get_or_generate_chunk" /\ ct'.task[t] # ct.task[t]
           /\ ct'.task[t].op = "get_or_generate_chunk") =>
              \A key \in DOMAIN chunks : chunks'[key] = chunks[key]]_vars

\* the steps of the LoginStart arm that wait for the socket of the
\* connection: a write_packet call that has not returned
LoginWrites_Pcs == {"login.success", "login.join_game", "login.position",
                    "login.chunk_data"}

\* task t is blocked writing the responses of its login to a congested
\* connection
BlockedWriting(t) ==
    /\ ct.task[t].op = "login"
    /\ ct.task[t].pc \in LoginWrites_Pcs
    /\ t \in ct.congested

\* C33: a congested connection back-pressures only itself: while one task is
\* blocked writing the responses of its login, the LoginStart of another
\* connection can take its next step, so it is never kept waiting for the
\* session map by the blocked task.
C33_CongestionIsLocal ==
    \A t \in Workers : \A u \in Workers \ {t} :
        (/\ BlockedWriting(u)
         /\ ct.task[t].op = "login"
         /\ ct.task[t].pc = "login.sessions"
         /\ t \notin ct.congested)
        => CanWrite("sessions")

(* Properties of the locks of the world and of the session map *)

\* the lock that the next step of task t acquires, and whether it is
\* acquired for writing; <<>> when the next step acquires none
Awaits(t) ==
    LET pc == ct.task[t].pc
    IN  CASE pc \in {"set_block.write", "set_chunk.write", "set_block.set_chunk"}
               -> <<"chunks", TRUE>>
          [] pc = "get_chunk.read" -> <<"chunks", FALSE>>
          [] pc = "spawn_player.counter" -> <<"counter", TRUE>>
          [] pc = "spawn_player.ecs" -> <<"ecs", TRUE>>
          [] pc = "get_all_players.read" -> <<"ecs", FALSE>>
          [] pc = "login.sessions" -> <<"sessions", TRUE>>
          [] pc \in {"load_module.store", "call_function.store"} -> <<"store", TRUE>>
          [] pc \in {"load_module.instance", "call_function.instance"}
               -> <<"instance", TRUE>>
          [] OTHER -> <<>>

\* task t waits for a lock that task u keeps it from
WaitsFor(t, u) ==
    /\ Awaits(t) # <<>>
    /\ LET l == Awaits(t)[1]
       IN  \/ ct.locks[l].w = u
           \/ Awaits(t)[2] /\ u \in ct.locks[l].r

\* the tasks that task t waits for, directly or through other tasks
RECURSIVE WaitsForClosure(_, _)
WaitsForClosure(seen, n) ==
    IF n = 0 THEN seen
    ELSE WaitsForClosure(seen \cup {u \in Workers : \E s \in seen : WaitsFor(s, u)}, n - 1)

Blockers(t) ==
    WaitsForClosure({u \in Workers : WaitsFor(t, u)}, Cardinality(Workers))

\* C34: no task holds the write lock of the chunk map and the lock of the
\* entity store at once, no task waits in a cycle of lock acquisitions
\* among the locks of the world, the session map and the entity counter,
\* and every operation that a task has started eventually completes: no
\* task stays inside a call for ever.
C34_NoDeadlock ==
    /\ [](\A t \in Workers :
            /\ ~(ct.locks["chunks"].w = t /\ "ecs" \in Holds(t))
            /\ t \notin Blockers(t))
    /\ \A t \in Workers : []<>(ct.task[t].pc \in {"idle", "done"})

\* a login that holds the session map waits for the write lock of the chunk
\* map, which a set_block of the other task holds
C34_Witness ==
    \E t \in Workers : \E u \in Workers \ {t} :
        /\ ct.task[t].op = "login"
        /\ ct.task[t].pc = "set_chunk.write"
        /\ "sessions" \in Holds(t)
        /\ ct.task[u].op = "set_block"
        /\ WaitsFor(t, u)

(* Properties of the locks of a sandbox runtime *)

\* the tasks whose guest call is executing
Executing == {t \in Workers : ct.task[t].pc = "call_function.call_async"}

\* C35: the hook calls on one runtime are serialized: at most one
\* call_function is executing the guest at a time, the tick driver and an
\* event emitter running concurrently included, and load_module and
\* call_function, which take the store before the instance, never wait for
\* each other in a cycle.
C35_HooksSerialized ==
    /\ Cardinality(Executing) <= 1
    /\ \A t \in Workers : t \notin Blockers(t)

\* the tick of the driver is executing and the hook call of the emitter
\* waits for the store
C35_Witness ==
    /\ ct.task["t1"].pc = "call_function.call_async"
    /\ ct.task["t1"].args = <<"tick">>
    /\ ct.task["t2"].op = "call_function"
    /\ WaitsFor("t2", "t1")

(* Properties of the login responses *)

\* the ChunkData packets written to connection c, in the order written
ChunkDataSent(c) == SelectSeq(sent[c], LAMBDA p : p.type = "ChunkData")

\* C36: the spawn chunks are streamed row-major with z as the outer loop and
\* x as the inner loop: for center (0, 0) and view radius 2 the k-th
\* ChunkData packet, k = 0..24, carries x = -2 + (k mod 5) and
\* z = -2 + (k div 5).
C36_ZOuterXInner ==
    \A c \in Conns :
        \A k \in 0..(Len(ChunkDataSent(c)) - 1) :
            /\ ChunkDataSent(c)[k + 1].x = (k % (2 * view_distance + 1)) - view_distance
            /\ ChunkDataSent(c)[k + 1].z = (k \div (2 * view_distance + 1)) - view_distance

(* Properties of the hooks that a module does not export *)

\* C37: the hooks are optional exports: a hook called on an instance whose
\* module does not export it is a successful no-op: the call does not return
\* the error of a function that was not found, and tick_all reports no error
\* for an instance whose module has no tick.
C37_MissingHookIsNoOp ==
    /\ sdrv.last.result # "NotFound"
    /\ sdrv.pc = "iter" =>
         \A w \in sdrv.errors : sandboxes[w].instance["tick"].kind # "absent"

(* Properties of the hooks dispatched to the plugins *)

\* the enabled plugins of a plugin map
EnabledPlugins(plugins) == {n \in DOMAIN plugins : plugins[n].enabled}

\* what holds of every dispatch: it returns true exactly when the hook of a
\* loaded, enabled plugin returns true, it calls no hook of a disabled
\* plugin, and when no hook cancels every enabled plugin has been called
DispatchReturns(plugins, d) ==
    /\ d.returned <=> \E n \in EnabledPlugins(plugins) : plugins[n].script[d.hook] = "true"
    /\ d.invoked \subseteq EnabledPlugins(plugins)
    /\ ~d.returned => d.invoked = EnabledPlugins(plugins)
    /\ d.logged \subseteq d.invoked

\* C38: on_player_chat, on_block_break and on_block_place of the
\* PluginManager return true if and only if the hook of at least one loaded,
\* enabled plugin returns true; the hook of a disabled plugin is never
\* called; a plugin whose hook raises an error or returns something that is
\* no boolean is logged and counts as not cancelling, and the dispatch goes
\* on to the other plugins.
C38_DispatchCancels ==
    [][pm'.last # pm.last =>
         /\ DispatchReturns(pm.plugins, pm'.last)
         /\ \A n \in pm'.last.invoked :
               pm.plugins[n].script[pm'.last.hook] \in {"error", "absent", "nil"}
                   => n \in pm'.last.logged]_vars

\* C38 as the code has it: as above, but only the plugin whose hook raises
\* an error (or is not defined) is logged; a hook that returns something that
\* is no boolean counts as not cancelling without a log entry.
C38_DispatchCancels_ErrorsLogged ==
    [][pm'.last # pm.last =>
         /\ DispatchReturns(pm.plugins, pm'.last)
         /\ \A n \in pm'.last.invoked :
               pm.plugins[n].script[pm'.last.hook] \in {"error", "absent"}
                   <=> n \in pm'.last.logged]_vars

\* a dispatch in which the hook of one plugin raised an error and was
\* logged, and the hook of the other plugin was called and cancelled, with
\* both plugins still loaded as they were
C38_Witness ==
    /\ pm.last.returned
    /\ pm.last.logged # {}
    /\ pm.last.invoked = DOMAIN pm.plugins
    /\ Cardinality(pm.last.invoked) = Cardinality(PluginNames)
    /\ \E n \in DOMAIN pm.plugins : pm.plugins[n].script[pm.last.hook] = "true"
    /\ \E n \in DOMAIN pm.plugins : pm.plugins[n].script[pm.last.hook] = "error"

(* Properties of PacketFrame::decode on any read buffer *)

\* C39: for every content of the read buffer PacketFrame::decode returns
\* need-more, a frame or an error and never panics; a frame consumes exactly
\* the length prefix and the declared number of bytes, and its packet id is
\* read from bytes inside the declared frame. A declared length of 0
\* followed by more bytes and a negative declared length give an error or
\* need-more.
C39_DecodeNeverPanics ==
    fr.pc = "decoded" =>
        LET len == ReadVarint(fr.before, 0, debugBuild)
        IN  /\ fr.res.kind \in {"none", "frame", "err"}
            /\ fr.res.kind = "frame" =>
                 /\ len.kind = "ok"
                 /\ Len(fr.before) - Len(fr.buf) = len.pos + len.value
                 /\ ReadVarint(fr.before, len.pos, debugBuild).pos <= len.pos + len.value
            /\ (len.kind = "ok" /\ len.value <= 0) => fr.res.kind \in {"none", "err"}

(* Properties of the entity id sent to the client *)

\* C40: the entity_id of the JoinGame packet written to a connection is the
\* EntityId that spawn_player gave to the player entity of that login, for
\* every login and not only for the first player of the world.
C40_JoinGameEntityId ==
    [][\A c \in Conns :
          \A k \in (Len(sent[c]) + 1)..Len(sent'[c]) :
              (sent'[c][k].type = "JoinGame" /\ Len(entities') = Len(entities) + 1)
                  => sent'[c][k].entity_id = entities'[Len(entities')].EntityId]_vars

========================================================================
